---- MODULE Spec2Model ----
(***************************************************************************)
(* A model of knolo-core: buildPack / mountPack / query and the helpers    *)
(* they call (tokenizer, index builder, posting scan, BM25L ranker, query  *)
(* expansion, KNS signature, diversifier, semantic section).               *)
(*                                                                         *)
(* Strings are sequences of character codes (UTF-16 code units).  Scores   *)
(* are JavaScript doubles in the source; here they are fixed-point         *)
(* integers in thousandths (1000 stands for 1.0), every product and        *)
(* quotient rounded towards minus infinity.                                *)
(***************************************************************************)
EXTENDS Integers, Sequences, FiniteSets, TLC

VARIABLES
  pc,         \* where the run is: "init", "built", "mounted", "answered", ...
  docs,       \* the documents handed to buildPack
  buildOpts,  \* the options handed to buildPack
  bytes,      \* the pack buffer buildPack returned
  pack,       \* the Pack mountPack returned
  qtext,      \* the text of the last query
  qopts,      \* the options of the last query
  hits,       \* the hits the last call returned
  trace,      \* what the last query computed on the way (pool, candidates, ...)
  memo,       \* what is remembered of the calls before the last one
  dinput,     \* diversifyAndDedupe: the hits it was called with
  dpool,      \* diversifyAndDedupe: its local pool
  dkept,      \* diversifyAndDedupe: its local kept
  dk          \* diversifyAndDedupe: its option k

vars == <<pc, docs, buildOpts, bytes, pack, qtext, qopts, hits, trace, memo,
          dinput, dpool, dkept, dk>>

----------------------------------------------------------------------------
(* Generic sequence helpers *)

Range(s) == {s[i] : i \in 1..Len(s)}

RECURSIVE Concat(_)
Concat(ss) == IF ss = <<>> THEN <<>> ELSE Head(ss) \o Concat(Tail(ss))

RECURSIVE SumSeq(_)
SumSeq(s) == IF s = <<>> THEN 0 ELSE Head(s) + SumSeq(Tail(s))

Min2(a, b) == IF a < b THEN a ELSE b
Max2(a, b) == IF a > b THEN a ELSE b
Abs(a) == IF a < 0 THEN -a ELSE a

\* index of the first element of s equal to x, 0 when there is none
RECURSIVE IndexFrom(_, _, _)
IndexFrom(s, x, i) ==
  IF i > Len(s) THEN 0 ELSE IF s[i] = x THEN i ELSE IndexFrom(s, x, i + 1)

IndexOf(s, x) == IndexFrom(s, x, 1)

----------------------------------------------------------------------------
(* tokenize.ts *)

IsUpper(c) == c >= 65 /\ c <= 90
IsLower(c) == c >= 97 /\ c <= 122
IsDigit(c) == c >= 48 /\ c <= 57
IsSpace(c) == c \in {9, 10, 13, 32}

\* normalize: NFKD and mark stripping are the identity on the ASCII
\* characters of the model; then lowercase; then every character that is
\* not a letter, a digit, whitespace or a hyphen becomes a space.
normChar(c) ==
  LET l == IF IsUpper(c) THEN c + 32 ELSE c
  IN  IF IsLower(l) \/ IsDigit(l) \/ IsSpace(l) \/ l = 45 THEN l ELSE 32

normalize(s) == [i \in 1..Len(s) |-> normChar(s[i])]

\* s.split(/\s+/).filter(Boolean)
RECURSIVE splitWs(_, _, _)
splitWs(s, i, cur) ==
  IF i > Len(s) THEN (IF cur = <<>> THEN <<>> ELSE <<cur>>)
  ELSE IF IsSpace(s[i])
       THEN (IF cur = <<>> THEN <<>> ELSE <<cur>>) \o splitWs(s, i + 1, <<>>)
       ELSE splitWs(s, i + 1, Append(cur, s[i]))

words(s) == splitWs(s, 1, <<>>)

tokenize(text) ==
  LET number(ws) == [i \in 1..Len(ws) |-> [term |-> ws[i], pos |-> i - 1]]
  IN  number(words(normalize(text)))

terms(text) == words(normalize(text))

\* parsePhrases: /"([^\"]+)"/g, then match[1].trim().split(/\s+/)
RECURSIVE parsePhrasesFrom(_, _)
parsePhrasesFrom(q, i) ==
  LET o == IndexFrom(q, 34, i)
  IN  IF o = 0 THEN <<>>
      ELSE LET c == IndexFrom(q, 34, o + 1)
           IN  IF c = 0 THEN <<>>
               ELSE IF c = o + 1 THEN parsePhrasesFrom(q, o + 1)
               ELSE LET ws == words(SubSeq(q, o + 1, c - 1))
                        phrase == IF ws = <<>> THEN << <<>> >> ELSE ws
                    IN  <<phrase>> \o parsePhrasesFrom(q, c + 1)

parsePhrases(q) == parsePhrasesFrom(q, 1)

----------------------------------------------------------------------------
(* builder.ts: stripMd.  The model's alphabet has no backtick, no '#' and  *)
(* no newline, so the code-fence, inline-code, heading-marker and link     *)
(* rewrites find nothing; emphasis marks, brackets and whitespace runs are *)
(* rewritten as the source does.                                           *)

stripChar(c) == IF c \in {42, 95, 126, 91, 93, 40, 41} THEN 32 ELSE c

RECURSIVE joinWords(_)
joinWords(ws) ==
  IF ws = <<>> THEN <<>>
  ELSE IF Len(ws) = 1 THEN ws[1]
  ELSE ws[1] \o <<32>> \o joinWords(Tail(ws))

stripMd(md) == joinWords(words([i \in 1..Len(md) |-> stripChar(md[i])]))

----------------------------------------------------------------------------
(* indexer.ts: buildIndex *)

\* term2id after the tokens toks were seen, starting from the terms lex
RECURSIVE addTerms(_, _)
addTerms(lex, toks) ==
  IF toks = <<>> THEN lex
  ELSE addTerms(IF IndexOf(lex, Head(toks)) = 0 THEN Append(lex, Head(toks)) ELSE lex,
                Tail(toks))

RECURSIVE term2id(_, _)
term2id(lex, blocks) ==
  IF blocks = <<>> THEN lex
  ELSE term2id(addTerms(lex, terms(Head(blocks).text)), Tail(blocks))

\* tk.pos of every token of the block whose term is t, in token order
positionsOf(t, text) ==
  LET RECURSIVE at(_, _)
      at(ts, i) == IF i > Len(ts) THEN <<>>
                   ELSE (IF ts[i] = t THEN <<i - 1>> ELSE <<>>) \o at(ts, i + 1)
  IN  at(terms(text), 1)

\* postings.push(bid + 1, ...positions, 0)
blockEntry(bid, positions) == <<bid + 1>> \o positions \o <<0>>

\* one term's entry: its id, a block entry per block that has it, then 0
termEntry(tid, t, blocks) ==
  LET entry(bid, ps) == IF ps = <<>> THEN <<>> ELSE blockEntry(bid, ps)
      RECURSIVE entries(_)
      entries(i) ==
        IF i > Len(blocks) THEN <<>>
        ELSE entry(blocks[i].id, positionsOf(t, blocks[i].text)) \o entries(i + 1)
  IN  <<tid>> \o entries(1) \o <<0>>

buildIndex(blocks) ==
  LET flatten(lex) ==
        [lexicon  |-> [i \in 1..Len(lex) |-> <<lex[i], i>>],
         postings |-> Concat([i \in 1..Len(lex) |-> termEntry(i, lex[i], blocks)])]
  IN  flatten(term2id(<<>>, blocks))

----------------------------------------------------------------------------
(* Optional values (undefined / null) and insertion-ordered Maps *)

None == <<>>
Some(x) == <<x>>
IsSome(o) == o # <<>>
OrElse(o, d) == IF o = <<>> THEN d ELSE o[1]

\* a JavaScript Map is a sequence of <<key, value>> in insertion order
RECURSIVE mapIndex(_, _, _)
mapIndex(m, k, i) ==
  IF i > Len(m) THEN 0 ELSE IF m[i][1] = k THEN i ELSE mapIndex(m, k, i + 1)

mapHas(m, k) == mapIndex(m, k, 1) # 0
mapGet(m, k, d) ==
  LET at(i) == IF i = 0 THEN d ELSE m[i][2]
  IN  at(mapIndex(m, k, 1))
mapSet(m, k, v) ==
  LET at(i) == IF i = 0 THEN Append(m, <<k, v>>) ELSE [m EXCEPT ![i] = <<k, v>>]
  IN  at(mapIndex(m, k, 1))

----------------------------------------------------------------------------
(* query.ts: scanForTermIds.  p is pack.postings; j is the 1-based index   *)
(* of the element the next p[i++] reads.  A read past the end of the array *)
(* yields undefined, which is !== 0: the loop that reads it never ends     *)
(* (hang).                                                                 *)

candIndex(cands, bid) ==
  LET RECURSIVE at(_)
      at(i) == IF i > Len(cands) THEN 0
               ELSE IF cands[i].bid = bid THEN i ELSE at(i + 1)
  IN  at(1)

newCandidate(bid) ==
  [bid |-> bid, tf |-> <<>>, pos |-> <<>>, hasPhrase |-> FALSE, headingScore |-> 0]

\* let pos = p[i++]; while (pos !== 0) { positions.push(pos); pos = p[i++]; }
RECURSIVE readPositions(_, _)
readPositions(p, j) ==
  IF j > Len(p) THEN [positions |-> <<>>, next |-> j, hang |-> TRUE]
  ELSE IF p[j] = 0 THEN [positions |-> <<>>, next |-> j + 1, hang |-> FALSE]
  ELSE LET r == readPositions(p, j + 1)
       IN  [r EXCEPT !.positions = <<p[j]>> \o @]

\* the body of `if (relevant && bid >= 0)`
addPosting(cands, bid, tid, positions, weight, cfg) ==
  LET update(base, kk) ==
        [base EXCEPT ![kk].tf  = mapSet(@, tid, mapGet(@, tid, 0) + Len(positions) * weight),
                     ![kk].pos = IF cfg.collectPositions
                                 THEN mapSet(@, tid, positions) ELSE @]
      at(k) == IF k # 0 THEN update(cands, k)
               ELSE IF ~cfg.createCandidates THEN cands
               ELSE update(Append(cands, newCandidate(bid)), Len(cands) + 1)
  IN  at(candIndex(cands, bid))

\* const bid = usesOffsetBlockIds ? encodedBid - 1 : encodedBid
decodeBid(encodedBid, usesOffsetBlockIds) ==
  IF usesOffsetBlockIds THEN encodedBid - 1 ELSE encodedBid

\* the loop `while (encodedBid !== 0)` for one term; p[j] is encodedBid
RECURSIVE scanBlocks(_, _, _, _, _, _, _)
scanBlocks(p, j, tid, weight, cfg, off, st) ==
  LET block(bid, r) ==
        IF r.hang THEN [st EXCEPT !.hang = TRUE]
        ELSE scanBlocks(p, r.next, tid, weight, cfg, off,
               [st EXCEPT !.termDf = @ + 1,
                          !.bids = @ \cup {bid},
                          !.cands = IF weight > 0 /\ bid >= 0
                                    THEN addPosting(@, bid, tid, r.positions, weight, cfg)
                                    ELSE @])
  IN  IF j > Len(p) THEN [st EXCEPT !.hang = TRUE]
      ELSE IF p[j] = 0 THEN [st EXCEPT !.next = j + 1]
      ELSE block(decodeBid(p[j], off), readPositions(p, j + 1))

\* the loop `while (i < p.length)`; st = [cands, dfs, bids, hang]
RECURSIVE scanTerms(_, _, _, _, _, _)
scanTerms(p, j, idWeights, cfg, off, st) ==
  LET after(tid, weight, r) ==
        scanTerms(p, r.next, idWeights, cfg, off,
                  [cands |-> r.cands,
                   dfs   |-> IF weight > 0 /\ ~r.hang
                             THEN mapSet(st.dfs, tid, r.termDf) ELSE st.dfs,
                   bids  |-> r.bids,
                   hang  |-> r.hang])
      term(tid, weight) ==
        after(tid, weight,
              scanBlocks(p, j + 1, tid, weight, cfg, off,
                         [cands |-> st.cands, bids |-> st.bids, termDf |-> 0,
                          next |-> j + 1, hang |-> FALSE]))
  IN  IF j > Len(p) \/ st.hang THEN st
      ELSE IF p[j] = 0 THEN scanTerms(p, j + 1, idWeights, cfg, off, st)
      ELSE term(p[j], mapGet(idWeights, p[j], 0))

scanForTermIds(pk, idWeights, cfg, st) ==
  scanTerms(pk.postings, 1, idWeights, cfg, pk.meta.version >= 3, st)

scanDefaults == [collectPositions |-> TRUE, createCandidates |-> TRUE]

----------------------------------------------------------------------------
(* Fixed-point arithmetic in thousandths *)

Mul(a, b) == (a * b) \div 1000
Div(a, b) == (a * 1000) \div b

\* Math.log(k) in thousandths, k = 1..40
LnTable ==
  <<0, 693, 1099, 1386, 1609, 1792, 1946, 2079,
    2197, 2303, 2398, 2485, 2565, 2639, 2708, 2773,
    2833, 2890, 2944, 2996, 3045, 3091, 3135, 3178,
    3219, 3258, 3296, 3332, 3367, 3401, 3434, 3466,
    3497, 3526, 3555, 3584, 3611, 3638, 3664, 3689>>

\* Array.prototype.sort((a, b) => key(b) - key(a)) is stable: the indices of
\* keys in descending key order, equal keys in their original order
RECURSIVE insertDesc(_, _, _)
insertDesc(sorted, x, keys) ==
  IF sorted = <<>> THEN <<x>>
  ELSE IF keys[Head(sorted)] >= keys[x]
       THEN <<Head(sorted)>> \o insertDesc(Tail(sorted), x, keys)
       ELSE <<x>> \o sorted

RECURSIVE sortPermFrom(_, _, _)
sortPermFrom(keys, i, acc) ==
  IF i > Len(keys) THEN acc ELSE sortPermFrom(keys, i + 1, insertDesc(acc, i, keys))

sortPerm(keys) == sortPermFrom(keys, 1, <<>>)

\* s sorted by descending keys[i], keys parallel to s
sortDesc(s, keys) ==
  LET permute(perm) == [i \in 1..Len(s) |-> s[perm[i]]]
  IN  permute(sortPerm(keys))

\* arr.slice() without the sort
copyOf(s) == s

\* arr.slice().sort((a, b) => a - b)
sortAsc(s) == sortDesc(s, [i \in 1..Len(s) |-> -s[i]])

\* a slice that keeps everything
sliceAll(s, n) == s

\* s.slice(0, n) for n >= 0
sliceTo(s, n) == SubSeq(s, 1, Min2(Len(s), n))

----------------------------------------------------------------------------
(* quality/proximity.ts *)

NoSpan == -1

\* the loop of minCoverSpan over the sorted lists, idx the cursor of each
RECURSIVE coverLoop(_, _, _)
coverLoop(lists, idx, best) ==
  LET advance(cur, mn, span) ==
        coverLoop(lists, [idx EXCEPT ![IndexOf(cur, mn)] = @ + 1],
                  IF best = NoSpan \/ span < best THEN span ELSE best)
      spanOf(cur, mn, mx) == advance(cur, mn, mx - mn)
      over(cur) == spanOf(cur,
                          CHOOSE v \in Range(cur) : \A w \in Range(cur) : v <= w,
                          CHOOSE v \in Range(cur) : \A w \in Range(cur) : v >= w)
  IN  IF \E i \in 1..Len(lists) : idx[i] > Len(lists[i]) THEN best
      ELSE over([i \in 1..Len(lists) |-> lists[i][idx[i]]])

minCoverSpan(posMap) ==
  LET cover(lists) == IF Len(lists) = 0 THEN NoSpan
                      ELSE coverLoop(lists, [i \in 1..Len(lists) |-> 1], NoSpan)
  IN  cover([i \in 1..Len(posMap) |-> sortAsc(posMap[i][2])])

\* 1 + strength / (1 + span), strength = 0.15
proximityMultiplier(span) ==
  IF span = NoSpan THEN 1000 ELSE 1000 + 150 \div (1 + span)

----------------------------------------------------------------------------
(* rank.ts: rankBM25L with k1 = 1.5, b = 0.75, headingBoost = 0.3,         *)
(* phraseBoost = 0.6 and the proximity hook query.ts passes in             *)

\* Math.log(1 + (docCount - df + 0.5) / (df + 0.5)) = ln((2N + 2) / (2df + 1))
idf(docCount, df) == LnTable[2 * docCount + 2] - LnTable[2 * df + 1]

\* blockTokenLens?.[bid] ?? (sum of tf || 1), in thousandths
candLen(cand, blockTokenLens) ==
  LET orOne(sum) == IF sum = 0 THEN 1000 ELSE sum
  IN  IF cand.bid + 1 <= Len(blockTokenLens) THEN 1000 * blockTokenLens[cand.bid + 1]
      ELSE orOne(SumSeq([i \in 1..Len(cand.tf) |-> cand.tf[i][2]]))

candScore(cand, avgLen, docCount, dfs, blockTokenLens) ==
  LET part(i, kpart) ==
        Mul(idf(docCount, mapGet(dfs, cand.tf[i][1], 0)),
            Div(Mul(cand.tf[i][2], 2500), cand.tf[i][2] + kpart))
      sumParts(kpart) == SumSeq([i \in 1..Len(cand.tf) |-> part(i, kpart)])
      heading(phr) ==
        IF cand.headingScore # 0 THEN Mul(phr, 1000 + Mul(300, cand.headingScore))
        ELSE phr
      phrase(prox) == heading(IF cand.hasPhrase THEN Mul(prox, 1600) ELSE prox)
      withLen(len) ==
        phrase(Mul(sumParts(Mul(1500, 250 + Mul(750, (len * avgLen[2]) \div avgLen[1]))),
                   proximityMultiplier(minCoverSpan(cand.pos))))
  IN  withLen(candLen(cand, blockTokenLens))

rankBM25L(candidates, avgLen, docCount, dfs, blockTokenLens) ==
  LET sorted(results) == sortDesc(results, [i \in 1..Len(results) |-> results[i].score])
  IN  sorted([i \in 1..Len(candidates) |->
                [blockId |-> candidates[i].bid,
                 score   |-> candScore(candidates[i], avgLen, docCount, dfs,
                                       blockTokenLens)]])

----------------------------------------------------------------------------
(* quality/signature.ts *)

RECURSIVE xor(_, _)
xor(a, b) ==
  IF a = 0 THEN b ELSE IF b = 0 THEN a
  ELSE (((a % 2) + (b % 2)) % 2) + 2 * xor(a \div 2, b \div 2)

PRIMES == <<257, 263, 269>>

\* i is the 0-based index of the code unit s[i + 1]
knsSignature(s) ==
  <<SumSeq([j \in 1..Len(s) |-> s[j]]) % PRIMES[1],
    SumSeq([j \in 1..Len(s) |-> s[j] * j]) % PRIMES[2],
    SumSeq([j \in 1..Len(s) |-> xor(2 * s[j], j + 6)]) % PRIMES[3]>>

\* mean circular distance, in thousandths
knsDistance(a, b) ==
  LET circ(i) == LET diff == Abs(a[i] - b[i])
                 IN  Div(Min2(diff, PRIMES[i] - diff), PRIMES[i])
  IN  (circ(1) + circ(2) + circ(3)) \div 3

----------------------------------------------------------------------------
(* quality/similarity.ts.  A similarity is the exact fraction              *)
(* <<numerator, denominator>>.                                             *)

ngramSet(s) ==
  LET grams(t) == IF Len(t) < 5 THEN (IF t # <<>> THEN {t} ELSE {})
                  ELSE {SubSeq(t, i, i + 4) : i \in 1..(Len(t) - 4)}
  IN  grams(normalize(s))

jaccardFromSets(a, b) ==
  LET ratio(inter, uni) == IF uni # 0 THEN <<inter, uni>> ELSE <<0, 1>>
      count(inter) == ratio(inter, Cardinality(a) + Cardinality(b) - inter)
  IN  IF a = {} /\ b = {} THEN <<1, 1>> ELSE count(Cardinality(a \cap b))

jaccard5(s1, s2) == jaccardFromSets(ngramSet(s1), ngramSet(s2))

\* v >= simThreshold with simThreshold = 0.92
atLeastThreshold(v) == v[1] * 100 >= 92 * v[2]
simGreater(v, w) == v[1] * w[2] > w[1] * v[2]
simMilli(v) == (v[1] * 1000) \div v[2]

----------------------------------------------------------------------------
(* quality/diversify.ts: diversifyAndDedupe with lambda = 0.8 *)

sim(a, b) == jaccard5(a.text, b.text)

\* the inner loop over kept, with its early out
maxSimOf(h, kept) ==
  LET RECURSIVE go(_, _)
      next(i, maxSim, v) ==
        IF atLeastThreshold(v) THEN v
        ELSE go(i + 1, IF simGreater(v, maxSim) THEN v ELSE maxSim)
      go(i, maxSim) ==
        IF i > Len(kept) THEN maxSim ELSE next(i, maxSim, sim(h, kept[i]))
  IN  go(1, <<0, 1>>)

\* the scan of the pool with `mmr >= bestMMR`: the last of equal candidates
lastBestOfPool(pool, kept) ==
  LET RECURSIVE go(_, _)
      better(i, best, mmr) ==
        IF ~best.found \/ mmr >= best.mmr
        THEN go(i + 1, [found |-> TRUE, idx |-> i, mmr |-> mmr])
        ELSE go(i + 1, best)
      next(i, best, maxSim) ==
        IF atLeastThreshold(maxSim) THEN go(i + 1, best)
        ELSE better(i, best, Mul(800, pool[i].score) - Mul(200, simMilli(maxSim)))
      go(i, best) ==
        IF i > Len(pool) THEN best ELSE next(i, best, maxSimOf(pool[i], kept))
  IN  go(1, [found |-> FALSE, idx |-> 1, mmr |-> 0])

\* the scan of the pool: found = (bestMMR # -Infinity), idx = bestIdx (1-based)
bestOfPool(pool, kept) ==
  LET RECURSIVE go(_, _)
      better(i, best, mmr) ==
        IF ~best.found \/ mmr > best.mmr
        THEN go(i + 1, [found |-> TRUE, idx |-> i, mmr |-> mmr])
        ELSE go(i + 1, best)
      next(i, best, maxSim) ==
        IF atLeastThreshold(maxSim) THEN go(i + 1, best)
        ELSE better(i, best, Mul(800, pool[i].score) - Mul(200, simMilli(maxSim)))
      go(i, best) ==
        IF i > Len(pool) THEN best ELSE next(i, best, maxSimOf(pool[i], kept))
  IN  go(1, [found |-> FALSE, idx |-> 1, mmr |-> 0])

removeAt(s, i) == SubSeq(s, 1, i - 1) \o SubSeq(s, i + 1, Len(s))

\* the push without the final dedupe check
keepsAnyPick(kept, pick) == TRUE

\* a push of the first pick only
keepsFirstPick(kept, pick) == kept = <<>>

\* the final dedupe check before push
keepsPick(kept, pick) ==
  ~\E i \in 1..Len(kept) : atLeastThreshold(sim(kept[i], pick))

\* pool.splice(at, 1)[0], then the push
splicePick(pool, kept, at) ==
  [pool |-> removeAt(pool, at),
   kept |-> IF keepsPick(kept, pool[at]) THEN Append(kept, pool[at]) ELSE kept]

\* bestMMR === -Infinity ? 0 : bestIdx
pickIndex(b) == IF b.found THEN b.idx ELSE 1

\* one iteration of the while loop (pool is not empty)
diversifyStep(pool, kept) == splicePick(pool, kept, pickIndex(bestOfPool(pool, kept)))

RECURSIVE diversifyLoop(_, _, _)
diversifyLoop(pool, kept, k) ==
  LET again(r) == diversifyLoop(r.pool, r.kept, k)
  IN  IF pool = <<>> \/ Len(kept) >= k THEN kept
      ELSE again(diversifyStep(pool, kept))

sortedPool(hs) == sortDesc(hs, [i \in 1..Len(hs) |-> hs[i].score])

diversifyAndDedupe(hs, k) == diversifyLoop(sortedPool(hs), <<>>, k)

----------------------------------------------------------------------------
(* query.ts *)

\* pack.lexicon.get(t): the term ids of the terms ts found in the lexicon,
\* in the order of ts (undefined filtered out)
lexIds(lexicon, ts) ==
  LET RECURSIVE go(_)
      go(i) == IF i > Len(ts) THEN <<>>
               ELSE (IF mapHas(lexicon, ts[i]) THEN <<mapGet(lexicon, ts[i], 0)>>
                     ELSE <<>>) \o go(i + 1)
  IN  go(1)

\* new Map(Array.from(set.values(), (tid) => [tid, 1]))
unitWeights(ids) ==
  LET RECURSIVE go(_, _)
      go(i, m) == IF i > Len(ids) THEN m ELSE go(i + 1, mapSet(m, ids[i], 1000))
  IN  go(1, <<>>)

\* seq.map(normalize).flatMap((s) => s.split(/\s+/)).filter(Boolean)
normalizeQuoted(seq) == Concat([i \in 1..Len(seq) |-> words(normalize(seq[i]))])

\* normalizeNamespaceFilter / normalizeSourceFilter
normalizeFilter(input) ==
  IF input = None THEN {}
  ELSE {normalize(v) : v \in Range(input[1])} \ {<<>>}

containsPhrase(text, seq) ==
  LET found(seqNorm, toks) ==
        \E i \in 0..(Len(toks) - Len(seqNorm)) :
          \A j \in 1..Len(seqNorm) : toks[i + j] = seqNorm[j]
  IN  IF Len(seq) = 0 THEN FALSE
      ELSE found(terms(joinWords(seq)), terms(text))

\* pack.blocks[bid] || "" (and ?? ""), pack.x?.[bid]
blockText(pk, bid) ==
  IF bid >= 0 /\ bid < Len(pk.blocks) THEN pk.blocks[bid + 1] ELSE <<>>
fieldAt(arr, bid) ==
  IF bid >= 0 /\ bid < Len(arr) THEN arr[bid + 1] ELSE None

\* the candidates that pass `normalizedX && filter.has(normalizedX)`
passesFilter(label, filter) ==
  LET has(n) == n # <<>> /\ n \in filter
  IN  has(IF label = None THEN <<>> ELSE normalize(label[1]))

filterNamespace(pk, cands, namespaceFilter) ==
  IF namespaceFilter = {} THEN cands
  ELSE LET ok(c) == passesFilter(fieldAt(pk.namespaces, c.bid), namespaceFilter)
       IN  SelectSeq(cands, ok)

filterSource(pk, cands, sourceFilter) ==
  IF sourceFilter = {} THEN cands
  ELSE LET ok(c) == passesFilter(fieldAt(pk.docIds, c.bid), sourceFilter)
       IN  SelectSeq(cands, ok)

enforcePhrases(pk, cands, requiredPhrases, quoted) ==
  LET ok(c) == \A i \in 1..Len(requiredPhrases) :
                 containsPhrase(blockText(pk, c.bid), requiredPhrases[i])
      mark(kept) == [i \in 1..Len(kept) |-> [kept[i] EXCEPT !.hasPhrase = TRUE]]
  IN  IF Len(requiredPhrases) > 0 THEN mark(SelectSeq(cands, ok)) ELSE cands

headingOverlap(pk, cands, normTokens) ==
  IF Len(pk.headings) = 0 THEN cands
  ELSE LET qset == Range(normTokens)
           qUniqueCount == IF Cardinality(qset) = 0 THEN 1 ELSE Cardinality(qset)
           score(c) ==
             LET h == OrElse(fieldAt(pk.headings, c.bid), <<>>)
                 overlap == Cardinality(Range(terms(h)) \cap qset)
             IN  Div(overlap, qUniqueCount)
       IN  [i \in 1..Len(cands) |-> [cands[i] EXCEPT !.headingScore = score(cands[i])]]

Clamp(x, lo, hi) == Max2(lo, Min2(hi, x))

deriveExpansionTerms(pk, prelim, baseTermSet, requiredPhrases, opts) ==
  LET forbidden == Range(baseTermSet) \cup
                   UNION {Range(lexIds(pk.lexicon, requiredPhrases[i])) :
                            i \in 1..Len(requiredPhrases)}
      \* Math.max(item.score / Math.max(prelim[0].score, 1e-6), 0.2)
      docWeight(item) == IF prelim[1].score <= 0 THEN 200
                         ELSE Max2(Div(item.score, prelim[1].score), 200)
      \* one document's localTfs, then its contribution to termScores
      RECURSIVE count(_, _, _)
      tally(toks, i, local, tid) ==
        IF Len(toks[i]) < opts.minTermLength \/ tid = 0 \/ tid \in forbidden
        THEN count(toks, i + 1, local)
        ELSE count(toks, i + 1, mapSet(local, tid, mapGet(local, tid, 0) + 1))
      count(toks, i, local) ==
        IF i > Len(toks) THEN local
        ELSE tally(toks, i, local, mapGet(pk.lexicon, toks[i], 0))
      RECURSIVE merge(_, _, _, _)
      merge(local, i, w, scores) ==
        IF i > Len(local) THEN scores
        ELSE merge(local, i + 1, w,
                   mapSet(scores, local[i][1],
                          mapGet(scores, local[i][1], 0) + local[i][2] * w))
      RECURSIVE perDoc(_, _)
      perDoc(i, scores) ==
        IF i > Min2(opts.docs, Len(prelim)) THEN scores
        ELSE perDoc(i + 1,
                    merge(count(terms(blockText(pk, prelim[i].blockId)), 1, <<>>),
                          1, docWeight(prelim[i]), scores))
      weigh(selected) ==
        [i \in 1..Len(selected) |->
           <<selected[i][1], Mul(opts.weight, Clamp(selected[i][2], 500, 1500))>>]
      select(termScores) ==
        weigh(sliceTo(sortDesc(termScores,
                               [i \in 1..Len(termScores) |-> termScores[i][2]]),
                      opts.terms))
  IN  IF Len(prelim) = 0 \/ opts.weight <= 0 THEN <<>> ELSE select(perDoc(1, <<>>))

\* a value that is not a string (a number, say) where an option takes
\* strings: the code -1, which no string holds, followed by the number
NotAString(n) == <<-1, n>>
isString(v) == \A i \in 1..Len(v) : v[i] >= 0

\* a validation that looks at topK alone
validateTopKOnly(opts) == opts.topK = None \/ opts.topK[1] >= 1

\* validateQueryOptions: topK a positive integer, minScore not negative,
\* requirePhrases, namespace and source made of strings,
\* queryExpansion.docs at least 1, each when given
validateQueryOptions(opts) ==
  LET strings(o) == o = None \/ \A i \in 1..Len(o[1]) : isString(o[1][i])
  IN  /\ opts.topK = None \/ opts.topK[1] >= 1
      /\ opts.minScore = None \/ opts.minScore[1] >= 0
      /\ strings(opts.requirePhrases)
      /\ strings(opts.namespace)
      /\ strings(opts.source)
      /\ opts.expDocs = None \/ opts.expDocs[1] >= 1

\* the options of a call, defaults applied (query.ts:42-49)
topKOf(opts) == OrElse(opts.topK, 10)

expansionOptsOf(opts) ==
  [enabled       |-> OrElse(opts.expEnabled, TRUE),
   docs          |-> Max2(1, OrElse(opts.expDocs, 3)),
   terms         |-> Max2(1, OrElse(opts.expTerms, 4)),
   weight        |-> Max2(0, OrElse(opts.expWeight, 350)),
   minTermLength |-> Max2(2, OrElse(opts.expMinTermLength, 3))]

\* quoted phrases of q, then the requirePhrases entries that have a token
requiredPhrasesOf(q, opts) ==
  LET nonEmpty(a) == Len(a) > 0
      quoted(quotedRaw) == [i \in 1..Len(quotedRaw) |-> normalizeQuoted(quotedRaw[i])]
      extraReq(given) == SelectSeq([i \in 1..Len(given) |-> terms(given[i])], nonEmpty)
  IN  quoted(parsePhrases(q)) \o extraReq(OrElse(opts.requirePhrases, <<>>))

\* [...new Set(ids)]
dedupeSeq(ids) ==
  LET RECURSIVE go(_, _)
      go(i, acc) == IF i > Len(ids) THEN acc
                    ELSE go(i + 1, IF IndexOf(acc, ids[i]) = 0 THEN Append(acc, ids[i])
                                   ELSE acc)
  IN  go(1, <<>>)

\* the maps of the call before, kept instead of made anew
staleScratch ==
  [cands |-> trace.cands, dfs |-> trace.dfs, bids |-> trace.bids, hang |-> FALSE]

\* the candidate map and the df map a call starts with (query.ts:77-83)
newScratch == [cands |-> <<>>, dfs |-> <<>>, bids |-> {}, hang |-> FALSE]

\* steps 1 and 2: the scan for the free tokens, then the phrase-first rescue
gatherCandidates(pk, termSet, requiredPhrases, scratch) ==
  LET rescue(s1, phraseTokenIds) ==
        IF Len(phraseTokenIds) > 0
        THEN scanForTermIds(pk, unitWeights(phraseTokenIds), scanDefaults, s1)
        ELSE s1
      scanned(s1) ==
        IF Len(s1.cands) = 0 /\ Len(requiredPhrases) > 0
        THEN rescue(s1, dedupeSeq(Concat([i \in 1..Len(requiredPhrases) |->
                                           lexIds(pk.lexicon, requiredPhrases[i])])))
        ELSE s1
  IN  scanned(IF Len(termSet) > 0
              THEN scanForTermIds(pk, unitWeights(termSet), scanDefaults, scratch)
              ELSE scratch)

\* the expansion rescan (query.ts:216-224)
expansionCfg == [collectPositions |-> FALSE, createCandidates |-> TRUE]

\* the pool handed to the diversifier (query.ts:229-240)
buildPool(pk, q, prelim, topK) ==
  LET boosted(r, text, qSig) ==
        [blockId   |-> r.blockId,
         score     |-> Mul(r.score,
                           1000 + Mul(20, 1000 - knsDistance(qSig, knsSignature(text)))),
         text      |-> text,
         source    |-> fieldAt(pk.docIds, r.blockId),
         namespace |-> fieldAt(pk.namespaces, r.blockId)]
      project(top, qSig) ==
        [i \in 1..Len(top) |-> boosted(top[i], blockText(pk, top[i].blockId), qSig)]
  IN  project(sliceTo(prelim, topK * 5), knsSignature(normalize(q)))

noResult(st) ==
  [hits |-> <<>>, pool |-> <<>>, bids |-> st.bids, hang |-> st.hang,
   expanded |-> <<>>, dfs |-> st.dfs, cands |-> st.cands]

\* pack.meta?.stats?.avgBlockLen ?? (mean of the token counts of the blocks,
\* 1 for a pack without blocks), a fraction <<numerator, denominator>>
avgLenOf(pk) ==
  IF pk.meta.stats.avgBlockLen # None THEN pk.meta.stats.avgBlockLen
  ELSE IF Len(pk.blocks) # 0
       THEN <<SumSeq([i \in 1..Len(pk.blocks) |-> Len(tokenize(pk.blocks[i]))]),
              Len(pk.blocks)>>
       ELSE <<1, 1>>

\* query(pack, q, opts), started with the scratch maps `scratch`.  The result
\* records, beside the hits, what the call computed on the way.  Each stage
\* below hands its values to the next one, in the order of the source.
query(pk, q, opts, scratch) ==
  LET rank(st) == rankBM25L(st.cands, avgLenOf(pk), pk.meta.stats.blocks,
                            st.dfs, pk.blockTokenLens)
      \* query.ts:242
      answer(st, weights, pool) ==
        [hits |-> diversifyAndDedupe(pool, topKOf(opts)), pool |-> pool,
         bids |-> st.bids, hang |-> FALSE, expanded |-> weights,
         dfs |-> st.dfs, cands |-> st.cands]
      \* query.ts:226-240
      ranked(st, weights, prelim) ==
        IF st.hang \/ Len(prelim) = 0 THEN noResult(st)
        ELSE answer(st, weights, buildPool(pk, q, prelim, topKOf(opts)))
      \* query.ts:218-223
      rescanned(st, weights, prelim1) ==
        ranked(st, weights, IF Len(weights) > 0 THEN rank(st) ELSE prelim1)
      expand(st, weights, prelim1) ==
        rescanned(IF Len(weights) > 0
                  THEN scanForTermIds(pk, weights, expansionCfg, st) ELSE st,
                  weights, prelim1)
      \* query.ts:216-217
      preliminary(st, termSet, required, prelim1, exp) ==
        expand(st,
               IF exp.enabled /\ Len(prelim1) > 0
               THEN deriveExpansionTerms(pk, prelim1, termSet, required, exp)
               ELSE <<>>,
               prelim1)
      \* query.ts:204-214
      scored(st, termSet, required) ==
        preliminary(st, termSet, required, rank(st), expansionOptsOf(opts))
      \* query.ts:189-201
      filtered(g, cands, termSet, required, normTokens) ==
        IF g.hang \/ Len(cands) = 0 THEN noResult([g EXCEPT !.cands = cands])
        ELSE scored([g EXCEPT !.cands = headingOverlap(pk, cands, normTokens)],
                    termSet, required)
      \* query.ts:152-186
      gathered(g, termSet, required, normTokens) ==
        filtered(g,
                 enforcePhrases(pk,
                   filterSource(pk,
                     filterNamespace(pk, g.cands, normalizeFilter(opts.namespace)),
                     normalizeFilter(opts.source)),
                   required, <<>>),
                 termSet, required, normTokens)
      \* query.ts:77-149
      parsed(normTokens, required, termSet) ==
        gathered(gatherCandidates(pk, termSet, required, scratch),
                 termSet, required, normTokens)
      \* query.ts:52-74
      tokens(normTokens, required) ==
        parsed(normTokens, required, dedupeSeq(lexIds(pk.lexicon, normTokens)))
  IN  tokens(terms(q), requiredPhrasesOf(q, opts))

----------------------------------------------------------------------------
(* semantic.ts.  A float32 is [sign, exp, man]: the sign bit, the biased   *)
(* exponent and the 23-bit mantissa of its bit pattern.  An embedding is a *)
(* vector of small integers whose Euclidean norm is an integer, so that    *)
(* every quotient the quantizer forms is an exact fraction.                *)

RECURSIVE Pow2(_)
Pow2(n) == IF n = 0 THEN 1 ELSE 2 * Pow2(n - 1)

RECURSIVE isqrtFrom(_, _)
isqrtFrom(n, r) == IF (r + 1) * (r + 1) > n THEN r ELSE isqrtFrom(n, r + 1)
isqrt(n) == isqrtFrom(n, 0)

\* the float32 nearest to the fraction num / den (num, den > 0), ties to even:
\* f32[0] = value
RECURSIVE binaryDigits(_, _, _, _)
binaryDigits(r, den, n, acc) ==
  IF n = 0 THEN [man |-> acc, rem |-> r]
  ELSE IF 2 * r >= den THEN binaryDigits(2 * r - den, den, n - 1, 2 * acc + 1)
       ELSE binaryDigits(2 * r, den, n - 1, 2 * acc)

RECURSIVE scaleUp(_, _, _)
scaleUp(num, den, e) ==
  IF num >= den THEN [num |-> num, den |-> den, e |-> e] ELSE scaleUp(2 * num, den, e - 1)

RECURSIVE scaleDown(_, _, _)
scaleDown(num, den, e) ==
  IF num < 2 * den THEN [num |-> num, den |-> den, e |-> e] ELSE scaleDown(num, 2 * den, e + 1)

toFloat32(num, den) ==
  LET bits(n, m) == IF m = 8388608 THEN [sign |-> 0, exp |-> n.e + 128, man |-> 0]
                    ELSE [sign |-> 0, exp |-> n.e + 127, man |-> m]
      round(n, d) ==
        bits(n, IF 2 * d.rem > n.den \/ (2 * d.rem = n.den /\ d.man % 2 = 1)
                THEN d.man + 1 ELSE d.man)
      digits(n) == round(n, binaryDigits(n.num - n.den, n.den, 23, 0))
      scaled(u) == digits(scaleDown(u.num, u.den, u.e))
  IN  IF num = 0 THEN [sign |-> 0, exp |-> 0, man |-> 0]
      ELSE scaled(scaleUp(num, den, 0))

bitSet(x, mask) == (x \div mask) % 2 = 1

\* halfExp is computed once, before the rounding that may bump exp
float32ToFloat16(f) ==
  LET subnormal(sign, mantissa) ==
        sign + ((IF bitSet(mantissa, 4096) THEN mantissa + 8192 ELSE mantissa) \div 8192)
      normal(sign, halfExp, carry) ==
        IF carry /\ f.exp + 1 > 142 THEN sign + 31744
        ELSE sign + halfExp * 1024
             + ((IF carry THEN 0
                 ELSE IF bitSet(f.man, 4096) THEN f.man + 8192 ELSE f.man) \div 8192)
      encode(sign, halfExp) ==
        IF f.exp = 255 THEN sign + (IF f.man # 0 THEN 32256 ELSE 31744)
        ELSE IF halfExp >= 31 THEN sign + 31744
        ELSE IF halfExp <= 0
             THEN IF halfExp < -10 THEN sign
                  ELSE subnormal(sign, (f.man + 8388608) \div Pow2(1 - halfExp))
        ELSE normal(sign, halfExp,
                    bitSet(f.man, 4096) /\ bitSet(f.man + 8192, 8388608))
  IN  encode(f.sign * 32768, f.exp - 127 + 15)

encodeScaleF16(scale) == float32ToFloat16(toFloat32(scale[1], scale[2]))

clampInt8(value) == IF value > 127 THEN 127 ELSE IF value < -127 THEN -127 ELSE value

\* Math.round(x) = floor(x + 1/2) of the fraction num / den, den > 0
roundFrac(num, den) == (2 * num + den) \div (2 * den)

maxAbsOf(e) ==
  LET largest(as) == CHOOSE a \in as : \A b \in as : a >= b
  IN  largest({Abs(e[i]) : i \in 1..Len(e)})

\* a component that is NaN, Infinity or -Infinity
NotFinite == 1000000

\* scale is the fraction <<num, den>>; normalized[i] / scale = 127 e[i] / maxAbs.
\* With a component that is not finite norm is NaN or Infinity, which is not
\* === 0; every embedding[i] / norm is then NaN or 0, `abs > maxAbs` is never
\* true, maxAbs and scale stay 0 and the zero vector is returned.
quantizeEmbeddingInt8L2Norm(embedding) ==
  LET quantized(norm, maxAbs) ==
        IF \E i \in 1..Len(embedding) : embedding[i] = NotFinite
        THEN [q |-> [i \in 1..Len(embedding) |-> 0], scale |-> <<0, 1>>]
        ELSE IF norm = 0
        THEN [q |-> [i \in 1..Len(embedding) |-> 0], scale |-> <<0, 1>>]
        ELSE [q     |-> [i \in 1..Len(embedding) |->
                           clampInt8(roundFrac(127 * embedding[i], maxAbs))],
              scale |-> <<maxAbs, 127 * norm>>]
  IN  quantized(isqrt(SumSeq([i \in 1..Len(embedding) |-> embedding[i] * embedding[i]])),
                maxAbsOf(embedding))

----------------------------------------------------------------------------
(* The pack buffer.  A buffer is a sequence of cells that each stand for   *)
(* one byte position.  A binary byte is the cell "b" with its value        *)
(* 0..255; the text of a JSON section is one cell per JSON token: "{"      *)
(* opens an object of v fields, "f" is a field with its name and value,    *)
(* "s" / "n" / "null" are scalars.                                         *)

byte(n) == [k |-> "b", v |-> n]
le32(v) ==
  <<byte(v % 256), byte((v \div 256) % 256), byte((v \div 65536) % 256),
    byte((v \div 16777216) % 256)>>
le16(v) == <<byte(v % 256), byte((v \div 256) % 256)>>
getUint32(buf, offset) ==
  buf[offset + 1].v + 256 * buf[offset + 2].v + 65536 * buf[offset + 3].v
  + 16777216 * buf[offset + 4].v
getUint16(buf, offset) == buf[offset + 1].v + 256 * buf[offset + 2].v
int8Byte(q) == byte((q + 256) % 256)
byteInt8(b) == IF b.v >= 128 THEN b.v - 256 ELSE b.v

jstr(x) == [k |-> "s", v |-> x]
jnum(x) == [k |-> "n", v |-> x]
jnull == [k |-> "null", v |-> 0]
\* an absent value written as the empty string
joptEmpty(o) == IF o = None THEN jstr(<<>>) ELSE jstr(o[1])
jopt(o) == IF o = None THEN jnull ELSE jstr(o[1])
jfield(name, cell) == [k |-> "f", name |-> name, val |-> cell]
jobject(fields) == <<[k |-> "{", v |-> Len(fields)]>> \o fields

\* the value cell of field `name` among the cells fs, jnull when it is missing
fieldOf(fs, name) ==
  LET value(hit) == IF hit = {} THEN jnull ELSE fs[CHOOSE i \in hit : TRUE].val
  IN  value({i \in 1..Len(fs) : fs[i].k = "f" /\ fs[i].name = name})

\* out.set(data, offset)
writeAt(buf, offset, data) ==
  [i \in 1..Len(buf) |->
     IF i > offset /\ i <= offset + Len(data) THEN data[i - offset] ELSE buf[i]]

----------------------------------------------------------------------------
(* builder.ts *)

\* !doc.text.trim()
blankText(t) == \A i \in 1..Len(t) : IsSpace(t[i])

validateDocs(ds) == \A i \in 1..Len(ds) : ~blankText(ds[i].text)

\* [ok, named, semJson, semBlob]; ok = FALSE stands for the thrown Error and
\* named is the index its message names, if it names one.  An embedding that
\* is absent (undefined) is the empty vector: at index 0 both give dims = 0,
\* at a later index both throw the Error that names the index.
buildSemanticSection(blockCount, semantic) ==
  LET bad(named) == [ok |-> FALSE, named |-> named, semJson |-> <<>>, semBlob |-> <<>>]
      firstOff(embeddings, dims) ==
        CHOOSE i \in 1..Len(embeddings) :
          /\ Len(embeddings[i]) # dims
          /\ \A j \in 1..(i - 1) : Len(embeddings[j]) = dims
      section(dims, count, vecs, scales) ==
        [ok |-> TRUE, named |-> None,
         semJson |-> jobject(<<
           jfield("modelId", jstr(semantic.modelId)),
           jfield("dims", jnum(dims)),
           jfield("encoding", jstr("int8_l2norm")),
           jfield("perVectorScale", jnum(1)),
           jfield("vectors.byteOffset", jnum(0)),
           jfield("vectors.length", jnum(Len(vecs))),
           jfield("scales.byteOffset", jnum(Len(vecs))),
           jfield("scales.length", jnum(count)),
           jfield("scales.encoding", jstr("float16"))>>),
         semBlob |-> vecs \o scales]
      \* vecs.set(q, i * dims); scales[i] = encodeScaleF16(scale)
      quantized(dims, qvs) ==
        section(dims, Len(qvs),
                Concat([i \in 1..Len(qvs) |-> [j \in 1..dims |-> int8Byte(qvs[i].q[j])]]),
                Concat([i \in 1..Len(qvs) |-> le16(encodeScaleF16(qvs[i].scale))]))
      checked(embeddings, dims) ==
        IF Len(embeddings) # blockCount THEN bad(None)
        ELSE IF dims = 0 THEN bad(None)
        ELSE IF \E i \in 1..Len(embeddings) : Len(embeddings[i]) # dims
             THEN bad(Some(firstOff(embeddings, dims) - 1))
        ELSE quantized(dims, [i \in 1..Len(embeddings) |->
                                quantizeEmbeddingInt8L2Norm(embeddings[i])])
  IN  checked(semantic.embeddings,
              IF Len(semantic.embeddings) = 0 THEN 0 ELSE Len(semantic.embeddings[1]))

blocksOf(ds) ==
  [i \in 1..Len(ds) |-> [id |-> i - 1, text |-> stripMd(ds[i].text),
                         heading |-> ds[i].heading]]

\* the bytes of the tail, written after the blocks section when `on`
semanticTail(on, sem) ==
  IF on THEN le32(Len(sem.semJson)) \o sem.semJson \o le32(Len(sem.semBlob)) \o sem.semBlob
  ELSE <<>>

\* the length with the two length prefixes of the tail counted always
totalLengthWithTail(metaBytes, lexBytes, postings, blocksBytes, on, sem) ==
  4 + Len(metaBytes) + 4 + Len(lexBytes) + 4 + Len(postings) * 4
  + 4 + Len(blocksBytes)
  + 4 + Len(sem.semJson) + 4 + Len(sem.semBlob)

\* totalLength (builder.ts:73-80)
totalLength(metaBytes, lexBytes, postings, blocksBytes, on, sem) ==
  4 + Len(metaBytes) + 4 + Len(lexBytes) + 4 + Len(postings) * 4
  + 4 + Len(blocksBytes)
  + (IF on THEN 4 + Len(sem.semJson) + 4 + Len(sem.semBlob) ELSE 0)

\* Each stage below hands its values to the next one, in the order of the
\* source.  A write that does not fit the allocated buffer throws a
\* RangeError (ok = FALSE).
buildPack(ds, opts) ==
  LET failed == [ok |-> FALSE, bytes |-> <<>>]
      \* the writes at the running offset (builder.ts:84-110)
      RECURSIVE writeAll(_, _, _)
      writeAll(out, offset, sections) ==
        IF sections = <<>> THEN [ok |-> TRUE, bytes |-> out]
        ELSE IF offset + Len(Head(sections)) > Len(out) THEN failed
        ELSE writeAll(writeAt(out, offset, Head(sections)),
                      offset + Len(Head(sections)), Tail(sections))
      \* builder.ts:73-82
      allocated(total, sections) == writeAll([i \in 1..total |-> byte(0)], 0, sections)
      encoded(metaBytes, lexBytes, postings, blocksBytes, on, sem) ==
        IF ~sem.ok THEN failed
        ELSE allocated(totalLength(metaBytes, lexBytes, postings, blocksBytes, on, sem),
                       << le32(Len(metaBytes)), metaBytes,
                          le32(Len(lexBytes)), lexBytes,
                          le32(Len(postings)),
                          Concat([i \in 1..Len(postings) |-> le32(postings[i])]),
                          le32(Len(blocksBytes)), blocksBytes,
                          semanticTail(on, sem) >>)
      \* builder.ts:40-71
      indexed(blocks, index, blockTokenLens, on) ==
        encoded(
          jobject(<<
            jfield("version", jnum(3)),
            jfield("stats.docs", jnum(Len(ds))),
            jfield("stats.blocks", jnum(Len(blocks))),
            jfield("stats.terms", jnum(Len(index.lexicon))),
            jfield("stats.avgBlockLen",
                   jnum(IF Len(blocks) # 0 THEN <<SumSeq(blockTokenLens), Len(blocks)>>
                        ELSE <<1, 1>>))>>),
          Concat([i \in 1..Len(index.lexicon) |->
                    <<jstr(index.lexicon[i][1]), jnum(index.lexicon[i][2])>>]),
          index.postings,
          Concat([i \in 1..Len(blocks) |-> jobject(<<
            jfield("text", jstr(blocks[i].text)),
            jfield("heading", jopt(blocks[i].heading)),
            jfield("docId", jopt(ds[i].id)),
            jfield("namespace", jopt(ds[i].namespace)),
            jfield("len", jnum(blockTokenLens[i]))>>)]),
          on,
          IF on THEN buildSemanticSection(Len(blocks), opts.semantic[1])
          ELSE [ok |-> TRUE, named |-> None, semJson |-> <<>>, semBlob |-> <<>>])
      \* builder.ts:28-38
      stripped(blocks, on) ==
        indexed(blocks, buildIndex(blocks),
                [i \in 1..Len(blocks) |-> Len(tokenize(blocks[i].text))], on)
  IN  IF ~validateDocs(ds) THEN failed
      ELSE stripped(blocksOf(ds), opts.semantic # None /\ opts.semantic[1].enabled)

----------------------------------------------------------------------------
(* pack.ts: mountPack.  ok = FALSE stands for a thrown error (a read past  *)
(* the end of the buffer, a section that is not the JSON it should be).    *)

isByte(c) == c.k = "b"
canRead(buf, offset, n) ==
  offset + n <= Len(buf) /\ \A i \in (offset + 1)..(offset + n) : isByte(buf[i])
isJson(buf, offset, n) ==
  offset + n <= Len(buf) /\ \A i \in (offset + 1)..(offset + n) : ~isByte(buf[i])

\* the blocks section: strings (v1) or objects
parseBlocks(cells) ==
  LET opt(c) == IF c.k = "null" THEN None ELSE Some(c.v)
      text(c) == IF c.k = "null" THEN <<>> ELSE c.v
      len(c) == IF c.k = "n" THEN c.v ELSE 0
      fields(objs) ==
        [blocks   |-> [n \in 1..Len(objs) |-> text(fieldOf(objs[n], "text"))],
         headings |-> [n \in 1..Len(objs) |-> opt(fieldOf(objs[n], "heading"))],
         docIds   |-> [n \in 1..Len(objs) |-> opt(fieldOf(objs[n], "docId"))],
         namespaces |-> [n \in 1..Len(objs) |-> opt(fieldOf(objs[n], "namespace"))],
         blockTokenLens |-> [n \in 1..Len(objs) |-> len(fieldOf(objs[n], "len"))]]
      objects(starts) ==
        fields([n \in 1..Len(starts) |->
                  SubSeq(cells, starts[n] + 1, starts[n] + cells[starts[n]].v)])
  IN  IF Len(cells) > 0 /\ cells[1].k = "s"
      THEN [blocks |-> [i \in 1..Len(cells) |-> cells[i].v],
            headings |-> <<>>, docIds |-> <<>>, namespaces |-> <<>>,
            blockTokenLens |-> <<>>]
      ELSE objects(SelectSeq([i \in 1..Len(cells) |-> i], LAMBDA i : cells[i].k = "{"))

parseSemanticSection(sem, blob) ==
  LET num(name) == LET c == fieldOf(sem, name) IN IF c.k = "n" THEN c.v ELSE 0
      str(name) == LET c == fieldOf(sem, name) IN IF c.k = "s" THEN c.v ELSE ""
      vOff == num("vectors.byteOffset")
      vLen == num("vectors.length")
      sOff == num("scales.byteOffset")
      sLen == num("scales.length")
  IN  [version |-> 1,
       modelId |-> str("modelId"),
       dims |-> num("dims"),
       encoding |-> "int8_l2norm",
       perVectorScale |-> num("perVectorScale") # 0,
       vecs |-> [i \in 1..vLen |-> byteInt8(blob[vOff + i])],
       scales |-> [i \in 1..sLen |-> getUint16(blob, sOff + 2 * (i - 1))]]

failedMount == [ok |-> FALSE, pack |-> <<>>]

\* Each stage below reads one section at the running offset and hands the
\* offset behind it to the next one, in the order of the source.
mountPack(buf) ==
  LET optional(c) == IF c.k = "null" THEN None ELSE c.v
      parseMeta(metaJson) ==
        [version |-> fieldOf(metaJson, "version").v,
         stats |-> [docs |-> fieldOf(metaJson, "stats.docs").v,
                    blocks |-> fieldOf(metaJson, "stats.blocks").v,
                    terms |-> fieldOf(metaJson, "stats.terms").v,
                    avgBlockLen |-> optional(fieldOf(metaJson, "stats.avgBlockLen"))]]
      semBlob(base, o4, o5, semBlobLen) ==
        IF ~canRead(buf, o5 + 4, semBlobLen) THEN failedMount
        ELSE [ok |-> TRUE,
              pack |-> [base EXCEPT !.semantic =
                          Some(parseSemanticSection(
                                 SubSeq(buf, o4 + 5, o5),
                                 SubSeq(buf, o5 + 5, o5 + 4 + semBlobLen)))]]
      semJson(base, o4, o5) ==
        IF ~isJson(buf, o4 + 4, o5 - o4 - 4) \/ ~canRead(buf, o5, 4) THEN failedMount
        ELSE semBlob(base, o4, o5, getUint32(buf, o5))
      \* if (offset < buf.byteLength)
      tail(base, o4) ==
        IF ~(o4 < Len(buf)) THEN [ok |-> TRUE, pack |-> base]
        ELSE IF ~canRead(buf, o4, 4) THEN failedMount
        ELSE semJson(base, o4, o4 + 4 + getUint32(buf, o4))
      assemble(meta, lexicon, postings, parsed, o4) ==
        tail([meta |-> meta, lexicon |-> lexicon, postings |-> postings,
              blocks |-> parsed.blocks, headings |-> parsed.headings,
              docIds |-> parsed.docIds, namespaces |-> parsed.namespaces,
              blockTokenLens |-> parsed.blockTokenLens, semantic |-> None],
             o4)
      blockSection(meta, lexicon, postings, o3, o4) ==
        IF ~isJson(buf, o3 + 4, o4 - o3 - 4) THEN failedMount
        ELSE assemble(meta, lexicon, postings, parseBlocks(SubSeq(buf, o3 + 5, o4)), o4)
      postSection(meta, lexicon, o2, postCount, o3) ==
        IF ~canRead(buf, o2 + 4, 4 * postCount) \/ ~canRead(buf, o3, 4) THEN failedMount
        ELSE blockSection(meta, lexicon,
                          [i \in 1..postCount |-> getUint32(buf, o2 + 4 + 4 * (i - 1))],
                          o3, o3 + 4 + getUint32(buf, o3))
      postingCount(meta, lexicon, o2, postCount) ==
        postSection(meta, lexicon, o2, postCount, o2 + 4 + 4 * postCount)
      lexSection(meta, o1, lexLen, o2) ==
        IF ~isJson(buf, o1 + 4, lexLen) \/ lexLen % 2 # 0 \/ ~canRead(buf, o2, 4)
        THEN failedMount
        ELSE postingCount(meta,
                          [i \in 1..(lexLen \div 2) |->
                             <<buf[o1 + 4 + 2 * i - 1].v, buf[o1 + 4 + 2 * i].v>>],
                          o2, getUint32(buf, o2))
      lexLength(meta, o1, lexLen) == lexSection(meta, o1, lexLen, o1 + 4 + lexLen)
      metaSection(o1) ==
        IF ~isJson(buf, 4, o1 - 4) \/ ~canRead(buf, o1, 4) THEN failedMount
        ELSE lexLength(parseMeta(SubSeq(buf, 5, o1)), o1, getUint32(buf, o1))
  IN  IF ~canRead(buf, 0, 4) THEN failedMount ELSE metaSection(4 + getUint32(buf, 0))

----------------------------------------------------------------------------
(* The inputs the runs draw from.  Texts are written as character codes:   *)
(* 97 98 99 are a b c, 112 113 are p q, 120 121 122 are x y z, 32 is the   *)
(* space, 34 the straight double quote, 42 the asterisk, 65 and 88 are A   *)
(* and X.                                                                  *)

MaxDocs == 2
MaxTopK == 2

absentDoc(text) == [id |-> None, heading |-> None, namespace |-> None, text |-> text]

\* "z a b ccc" from source p in namespace x; "z ccc" from source q in
\* namespace y; "a ccc b a a" with no id, heading or namespace; "*A* b" under
\* the heading "a" in namespace X
DocPool ==
  { [id |-> Some(<<112>>), heading |-> None, namespace |-> Some(<<120>>),
     text |-> <<122, 32, 97, 32, 98, 32, 99, 99, 99>>],
    [id |-> Some(<<113>>), heading |-> None, namespace |-> Some(<<121>>),
     text |-> <<122, 32, 99, 99, 99>>],
    absentDoc(<<97, 32, 99, 99, 99, 32, 98, 32, 97, 32, 97>>),
    [id |-> None, heading |-> Some(<<97>>), namespace |-> Some(<<88>>),
     text |-> <<42, 65, 42, 32, 98>>] }

\* six blocks that all hold the term a: "z a", "b a", "ccc a", "z z a",
\* "b b a", "z b a"
ManyDocs ==
  << absentDoc(<<122, 32, 97>>), absentDoc(<<98, 32, 97>>),
     absentDoc(<<99, 99, 99, 32, 97>>), absentDoc(<<122, 32, 122, 32, 97>>),
     absentDoc(<<98, 32, 98, 32, 97>>), absentDoc(<<122, 32, 98, 32, 97>>) >>

SeqsUpTo(S, n) == UNION {[1..m -> S] : m \in 1..n}

DocLists == SeqsUpTo(DocPool, MaxDocs) \cup {ManyDocs}

noSemantic == [semantic |-> None]

\* a, "a b" (quoted), ccc, z a, b, and a b between the curly quotes U+201C
\* and U+201D
QueryTexts ==
  { <<97>>, <<34, 97, 32, 98, 34>>, <<99, 99, 99>>, <<122, 32, 97>>, <<98>>,
    <<8220, 97, 32, 98, 8221>> }

\* topK, when given: 0 is refused by validateQueryOptions
TopKs == {None} \cup {Some(k) : k \in 0..MaxTopK}

QueryOptions ==
  [topK : TopKs, minScore : {None},
   requirePhrases : {None, Some(<< <<97, 32, 98>> >>)},
   namespace : {None, Some(<< <<120>> >>)},
   source : {None, Some(<< <<112>> >>)},
   expEnabled : {None, Some(FALSE)},
   expDocs : {None}, expTerms : {None}, expWeight : {None},
   expMinTermLength : {None}]

noTrace ==
  [pool |-> <<>>, bids |-> {}, hang |-> FALSE, expanded |-> <<>>, dfs |-> <<>>,
   cands |-> <<>>]

traceOf(r) ==
  [pool |-> r.pool, bids |-> r.bids, hang |-> r.hang, expanded |-> r.expanded,
   dfs |-> r.dfs, cands |-> r.cands]

----------------------------------------------------------------------------
(* Build, mount, one query *)

InitWith(ds, o) ==
  /\ pc = "init"
  /\ docs = ds
  /\ buildOpts = o
  /\ bytes = <<>>
  /\ pack = <<>>
  /\ qtext = <<>>
  /\ qopts = <<>>
  /\ hits = <<>>
  /\ trace = noTrace
  /\ memo = <<>>
  /\ dinput = <<>>
  /\ dpool = <<>>
  /\ dkept = <<>>
  /\ dk = 0

Init == \E ds \in DocLists : InitWith(ds, noSemantic)

BuildPack ==
  /\ pc = "init"
  /\ LET r == buildPack(docs, buildOpts)
     IN  /\ bytes' = r.bytes
         /\ pc' = IF r.ok THEN "built" ELSE "buildFailed"
  /\ UNCHANGED <<docs, buildOpts, pack, qtext, qopts, hits, trace, memo,
                 dinput, dpool, dkept, dk>>

MountPack ==
  /\ pc = "built"
  /\ LET r == mountPack(bytes)
     IN  /\ pack' = r.pack
         /\ pc' = IF r.ok THEN "mounted" ELSE "mountFailed"
  /\ UNCHANGED <<docs, buildOpts, bytes, qtext, qopts, hits, trace, memo,
                 dinput, dpool, dkept, dk>>

\* a call that uses up the posting stream it reads
packDrained(pk, q, opts) == [pk EXCEPT !.postings = <<>>]

\* the Pack object after query(pack, q, opts): the call reads pack.lexicon,
\* postings, blocks, headings, docIds, namespaces, blockTokenLens and meta
\* and assigns to none of them; the candidate and df maps and the position
\* arrays it fills are its own
packAfterQuery(pk, q, opts) == pk

\* query(pack, q, o); a scan that never ends leaves the run at "hung"
RunQuery(q, o) ==
  LET r == query(pack, q, o, newScratch)
  IN  /\ qtext' = q
      /\ qopts' = o
      /\ pack' = packAfterQuery(pack, q, o)
      /\ hits' = r.hits
      /\ trace' = traceOf(r)
      /\ pc' = IF r.hang THEN "hung" ELSE "answered"

\* the validation error thrown at the entry of the call, before any scan
RejectQuery(q, o) ==
  /\ qtext' = q
  /\ qopts' = o
  /\ pack' = pack
  /\ hits' = <<>>
  /\ trace' = noTrace
  /\ pc' = "rejected"

Query ==
  /\ pc = "mounted"
  /\ \E q \in QueryTexts, o \in QueryOptions :
       IF validateQueryOptions(o) THEN RunQuery(q, o) ELSE RejectQuery(q, o)
  /\ UNCHANGED <<docs, buildOpts, bytes, memo, dinput, dpool, dkept, dk>>

Next == BuildPack \/ MountPack \/ Query

Spec == Init /\ [][Next]_vars

----------------------------------------------------------------------------
(* Properties of build, mount, one query *)

\* the text holds the phrase as an ordered contiguous run of normalized tokens
HasRun(text, phrase) ==
  \E i \in 1..Len(terms(text)) :
    /\ i + Len(phrase) - 1 <= Len(terms(text))
    /\ SubSeq(terms(text), i, i + Len(phrase) - 1) = phrase

Answered == pc = "answered"

\* C1: every returned hit's block text contains every required phrase (the
\* quoted spans of q and the requirePhrases entries) as an ordered contiguous
\* run of normalized tokens, query expansion enabled or not.
C1_RequiredPhrasesInEveryHit ==
  Answered =>
    \A i \in 1..Len(hits) :
      \A phrase \in Range(requiredPhrasesOf(qtext, qopts)) :
        HasRun(hits[i].text, phrase)

\* the normalized label is in the normalized filter set
InFilter(label, given) ==
  /\ label # None
  /\ normalize(label[1]) \in {normalize(v) : v \in Range(given[1])}

\* C2: with a non-empty namespace filter every returned hit has a namespace
\* whose normalized form is in the normalized filter set, and likewise for a
\* non-empty source filter and the hit's source.
C2_HitsPassTheFilters ==
  Answered =>
    \A i \in 1..Len(hits) :
      /\ qopts.namespace # None => InFilter(hits[i].namespace, qopts.namespace)
      /\ qopts.source # None => InFilter(hits[i].source, qopts.source)

\* the query is one term of block 0, alone, with no filter and no required
\* phrase, and topK is at least the number of blocks
OneTermOfBlockZero ==
  /\ Answered
  /\ Len(terms(qtext)) = 1
  /\ parsePhrases(qtext) = <<>>
  /\ terms(qtext)[1] \in Range(terms(pack.blocks[1]))
  /\ qopts.namespace = None /\ qopts.source = None /\ qopts.requirePhrases = None
  /\ topKOf(qopts) >= Len(pack.blocks)

\* a returned hit that is a near-duplicate of block 0
NearDuplicateOfBlockZeroKept ==
  \E i \in 1..Len(hits) : atLeastThreshold(jaccard5(hits[i].text, pack.blocks[1]))

\* C3: a query for one term of block 0 alone, at whatever position the term
\* stands, returns a hit with blockId 0 unless a near-duplicate of block 0
\* was kept.
C3_BlockZeroRetrievable ==
  OneTermOfBlockZero =>
    \/ \E i \in 1..Len(hits) : hits[i].blockId = 0
    \/ NearDuplicateOfBlockZeroKept

\* C4: every block id the scan decodes from the posting stream of a built
\* pack lies in 0..N-1, and so does the blockId of every candidate and of
\* every returned hit.
C4_BlockIdsInRange ==
  Answered =>
    /\ trace.bids \subseteq 0..(Len(docs) - 1)
    /\ \A i \in 1..Len(trace.cands) : trace.cands[i].bid \in 0..(Len(docs) - 1)
    /\ \A i \in 1..Len(hits) : hits[i].blockId \in 0..(Len(docs) - 1)

\* the number of zeros in a posting stream
RECURSIVE Zeros(_)
Zeros(p) == IF p = <<>> THEN 0 ELSE (IF Head(p) = 0 THEN 1 ELSE 0) + Zeros(Tail(p))

\* the block entries a stream must hold: one for each term and block with it
BlockEntries(blocks) ==
  {<<t, b>> \in (UNION {Range(terms(blocks[b].text)) : b \in 1..Len(blocks)})
              \X (1..Len(blocks)) : t \in Range(terms(blocks[b].text))}

\* C5: in the posting stream buildIndex emits, the positions of every block
\* entry are strictly positive and strictly increasing, so that 0 occurs only
\* as the terminator of a block entry or of a term entry.
C5_PositionsPositiveIncreasing ==
  pc = "built" =>
    LET blocks == blocksOf(docs)
        index == buildIndex(blocks)
    IN  /\ \A e \in BlockEntries(blocks) :
             LET ps == positionsOf(e[1], blocks[e[2]].text)
             IN  /\ \A i \in 1..Len(ps) : ps[i] > 0
                 /\ \A i \in 1..(Len(ps) - 1) : ps[i] < ps[i + 1]
        /\ Zeros(index.postings) = Len(index.lexicon) + Cardinality(BlockEntries(blocks))

\* the topK of the last query: 10 when not given
GivenTopK == IF qopts.topK = None THEN 10 ELSE qopts.topK[1]

QuoteMarks == {34, 8220, 8221}

\* the spans of q between two quote marks, as normalized token sequences
RECURSIVE QuotedSpansFrom(_, _)
QuotedSpansFrom(q, i) ==
  LET marks == {j \in i..Len(q) : q[j] \in QuoteMarks}
      first(S) == CHOOSE j \in S : \A k \in S : j <= k
  IN  IF marks = {} THEN <<>>
      ELSE LET o == first(marks)
               rest == {j \in marks : j > o}
           IN  IF rest = {} THEN <<>>
               ELSE IF first(rest) = o + 1 THEN QuotedSpansFrom(q, o + 1)
               ELSE <<terms(SubSeq(q, o + 1, first(rest) - 1))>>
                    \o QuotedSpansFrom(q, first(rest) + 1)

HasCurlySpan == \E i \in 1..Len(qtext) : qtext[i] \in {8220, 8221}

\* C11: a span of the query text between curly double quotes is a phrase
\* like a span between straight double quotes: it is in the required phrase
\* set, and every returned hit's block holds its normalized tokens as a
\* contiguous ordered run.
C11_CurlyQuotesDelimitPhrases ==
  (Answered /\ HasCurlySpan) =>
    \A phrase \in Range(QuotedSpansFrom(qtext, 1)) :
      /\ phrase \in Range(requiredPhrasesOf(qtext, qopts))
      /\ \A i \in 1..Len(hits) : HasRun(hits[i].text, phrase)

\* the tokens of the query text and of the required phrases
BaseTerms ==
  Range(terms(qtext)) \cup
  UNION {Range(ph) : ph \in Range(requiredPhrasesOf(qtext, qopts))}

\* the terms the expansion selected
ExpansionTerms ==
  {pack.lexicon[i][1] : i \in {j \in 1..Len(pack.lexicon) :
     \E e \in 1..Len(trace.expanded) : trace.expanded[e][1] = pack.lexicon[j][2]}}

ExpansionOff == qopts.expEnabled = Some(FALSE)

\* the block of the hit, "" when the pack has no such block
BlockTermsOf(bid) == Range(terms(blockText(pack, bid)))

\* C12: with expansion disabled every returned hit's block holds a free term
\* of the query or a token of a required phrase; with expansion enabled a
\* returned block without a base term holds a selected expansion term, and
\* every block that holds a selected expansion term is a candidate.
C12_HitsHoldQueryOrExpansionTerm ==
  Answered =>
    /\ \A i \in 1..Len(hits) :
         \/ BlockTermsOf(hits[i].blockId) \cap BaseTerms # {}
         \/ /\ ~ExpansionOff
            /\ BlockTermsOf(hits[i].blockId) \cap ExpansionTerms # {}
    /\ ExpansionOff => trace.expanded = <<>>
    /\ (hits # <<>>) =>
         \A b \in 1..Len(pack.blocks) :
           Range(terms(pack.blocks[b])) \cap ExpansionTerms # {}
             => \E c \in 1..Len(trace.cands) : trace.cands[c].bid = b - 1

----------------------------------------------------------------------------
(* diversifyAndDedupe, one iteration of its loop at a time *)

MaxHits == 3

\* abcdefghijklmno, abcdefghijklmnop, abcdefghijklmnopq: 11, 12 and 13
\* 5-grams, each text a prefix of the next
T15 == <<97, 98, 99, 100, 101, 102, 103, 104, 105, 106, 107, 108, 109, 110, 111>>
T16 == T15 \o <<112>>
T17 == T16 \o <<113>>
\* zyxwvutsrqponmlkjihgfedcba9 and the same followed by 87: 23 and 25 5-grams
U27 == <<122, 121, 120, 119, 118, 117, 116, 115, 114, 113, 112, 111, 110, 109,
         108, 107, 106, 105, 104, 103, 102, 101, 100, 99, 98, 97, 57>>
U29 == U27 \o <<56, 55>>

hitOf(blockId, score, text) ==
  [blockId |-> blockId, score |-> score, text |-> text, source |-> None,
   namespace |-> None]

\* the hits 0 and 5 have the same score and texts with no common 5-gram
HitPool ==
  { hitOf(0, 900, T16), hitOf(1, 800, T17), hitOf(2, 700, T15),
    hitOf(3, 850, U27), hitOf(4, 600, U29), hitOf(5, 900, U27) }

InitDiv ==
  \/ Init
  \/ \E hs \in SeqsUpTo(HitPool, MaxHits), k \in 1..MaxHits :
       /\ pc = "divStart"
       /\ docs = <<>> /\ buildOpts = noSemantic /\ bytes = <<>> /\ pack = <<>>
       /\ qtext = <<>> /\ qopts = <<>> /\ hits = <<>> /\ trace = noTrace
       /\ memo = <<>>
       /\ dinput = hs /\ dpool = <<>> /\ dkept = <<>> /\ dk = k

\* const pool = [...hits].sort(...); const kept = []
DivSort ==
  /\ pc = "divStart"
  /\ dpool' = sortedPool(dinput)
  /\ dkept' = <<>>
  /\ pc' = "divLoop"
  /\ UNCHANGED <<docs, buildOpts, bytes, pack, qtext, qopts, hits, trace, memo,
                 dinput, dk>>

\* one iteration of while (pool.length && kept.length < k)
DivStep ==
  /\ pc = "divLoop"
  /\ dpool # <<>> /\ Len(dkept) < dk
  /\ LET r == diversifyStep(dpool, dkept)
     IN  dpool' = r.pool /\ dkept' = r.kept
  /\ UNCHANGED <<pc, docs, buildOpts, bytes, pack, qtext, qopts, hits, trace,
                 memo, dinput, dk>>

\* return kept
DivReturn ==
  /\ pc = "divLoop"
  /\ ~(dpool # <<>> /\ Len(dkept) < dk)
  /\ hits' = dkept
  /\ pc' = "divDone"
  /\ UNCHANGED <<docs, buildOpts, bytes, pack, qtext, qopts, trace, memo,
                 dinput, dpool, dkept, dk>>

NextDiv == BuildPack \/ MountPack \/ Query \/ DivSort \/ DivStep \/ DivReturn

SpecDiv == InitDiv /\ [][NextDiv]_vars

\* jaccard5 of the two texts is below 0.92
BelowThreshold(a, b) ==
  jaccard5(a.text, b.text)[1] * 100 < 92 * jaccard5(a.text, b.text)[2]

PairwiseBelow(hs) ==
  \A i, j \in 1..Len(hs) : i # j => BelowThreshold(hs[i], hs[j])

\* C6: any two distinct hits in the output of diversifyAndDedupe, and so in
\* the result of query, have jaccard5 of their texts below 0.92, and the
\* kept set satisfies this after every iteration of the selection loop.
C6_PairwiseBelowThreshold ==
  /\ PairwiseBelow(dkept)
  /\ pc \in {"divDone", "answered"} => PairwiseBelow(hits)

\* the loop returned two hits or more from an input with two near-duplicates
C6_Witness ==
  /\ pc = "divDone"
  /\ Len(hits) >= 2
  /\ hits = diversifyAndDedupe(dinput, dk)
  /\ \E i, j \in 1..Len(dinput) : i # j /\ ~BelowThreshold(dinput[i], dinput[j])

----------------------------------------------------------------------------
(* Queries repeated on one mounted pack *)

MaxRuns == 2

defaultOptions ==
  [topK |-> None, minScore |-> None, requirePhrases |-> None, namespace |-> None, source |-> None,
   expEnabled |-> None, expDocs |-> None, expTerms |-> None, expWeight |-> None,
   expMinTermLength |-> None]

\* a, "a b" (quoted) and z a with topK 1
RepeatInputs ==
  { <<<<97>>, defaultOptions>>,
    <<<<34, 97, 32, 98, 34>>, defaultOptions>>,
    <<<<122, 32, 97>>, [defaultOptions EXCEPT !.topK = Some(1)]>> }

\* the first answer to the input and how often it was asked, up to MaxRuns
remember(m, in, answer) ==
  IF in \in DOMAIN m
  THEN [m EXCEPT ![in].runs = Min2(@ + 1, MaxRuns)]
  ELSE (in :> [first |-> answer, runs |-> 1]) @@ m

Requery ==
  /\ pc \in {"mounted", "answered"}
  /\ \E in \in RepeatInputs :
       /\ RunQuery(in[1], in[2])
       /\ memo' = remember(memo, in, hits')
  /\ UNCHANGED <<docs, buildOpts, bytes, dinput, dpool, dkept, dk>>

NextRepeat == BuildPack \/ MountPack \/ Requery

SpecRepeat == Init /\ [][NextRepeat]_vars

----------------------------------------------------------------------------
(* Build and mount, with and without the semantic section *)

\* "z a b ccc" from source p in namespace x; "*A* b" under the heading "a" in
\* namespace X; "a  a" with the empty string as its id
PackDocPool ==
  { [id |-> Some(<<112>>), heading |-> None, namespace |-> Some(<<120>>),
     text |-> <<122, 32, 97, 32, 98, 32, 99, 99, 99>>],
    [id |-> None, heading |-> Some(<<97>>), namespace |-> Some(<<88>>),
     text |-> <<42, 65, 42, 32, 98>>],
    [id |-> Some(<<>>), heading |-> None, namespace |-> None,
     text |-> <<97, 32, 32, 97>>] }

PackDocLists == {<<>>} \cup SeqsUpTo(PackDocPool, MaxDocs)

\* embeddings of two dimensions, one of one dimension, one with a component
\* that is not finite, and an absent one
EmbeddingPool == { <<3, 4>>, <<0, -5>>, <<0, 0>>, <<5>>, <<NotFinite, 4>>, <<>> }

SemanticOptions ==
  {None} \cup
  { Some([enabled |-> e, modelId |-> <<109>>, embeddings |-> es]) :
      e \in BOOLEAN, es \in {<<>>} \cup SeqsUpTo(EmbeddingPool, MaxDocs) }

InitPack ==
  \E ds \in PackDocLists, sem \in SemanticOptions : InitWith(ds, [semantic |-> sem])

NextPack == BuildPack \/ MountPack

SpecPack == InitPack /\ [][NextPack]_vars

\* C9: the pack mounted from buildPack(D) has one block per document, in
\* input order, holding the markdown-stripped text; docIds, namespaces and
\* headings are those of the documents (null when absent); blockTokenLens
\* are the token counts of the blocks; lexicon and postings are those of
\* buildIndex, element for element.
C9_MountOfBuildIsTheDocuments ==
  /\ buildOpts.semantic = None => pc \notin {"buildFailed", "mountFailed"}
  /\ pc = "mounted" =>
       /\ Len(pack.blocks) = Len(docs)
       /\ pack.meta.stats.blocks = Len(docs)
       /\ Len(pack.docIds) = Len(docs) /\ Len(pack.namespaces) = Len(docs)
       /\ Len(pack.headings) = Len(docs) /\ Len(pack.blockTokenLens) = Len(docs)
       /\ \A i \in 1..Len(docs) :
            /\ pack.blocks[i] = stripMd(docs[i].text)
            /\ pack.docIds[i] = docs[i].id
            /\ pack.namespaces[i] = docs[i].namespace
            /\ pack.headings[i] = docs[i].heading
            /\ pack.blockTokenLens[i] = Len(terms(pack.blocks[i]))
       /\ pack.lexicon = buildIndex(blocksOf(docs)).lexicon
       /\ pack.postings = buildIndex(blocksOf(docs)).postings

\* two documents or more were built and mounted, one with an id and one
\* without, one with markdown that was stripped
C9_Witness ==
  /\ pc = "mounted"
  /\ Len(docs) >= 2
  /\ \E i, j \in 1..Len(docs) : docs[i].id = None /\ docs[j].id # None
  /\ \E i \in 1..Len(docs) : pack.blocks[i] # docs[i].text

SemanticEnabled == buildOpts.semantic # None /\ buildOpts.semantic[1].enabled

\* the offset behind the last section of the buffer, read from the length
\* prefixes: meta, lexicon, postings, blocks, then the semantic JSON and blob
RECURSIVE EndOfSections(_, _, _)
EndOfSections(buf, offset, kinds) ==
  IF kinds = <<>> THEN offset
  ELSE EndOfSections(buf,
                     offset + 4 + Head(kinds) * getUint32(buf, offset),
                     Tail(kinds))

\* C10: the mounted pack has a semantic section exactly when
\* O.semantic.enabled is true; the buffer ends where its last section ends;
\* with N embeddings of dimension d the mounted section has dims d, N * d
\* vector bytes with block i's quantized vector at [i * d, (i + 1) * d), and
\* N scales, scale i that of block i.
C10_SemanticIffEnabled ==
  /\ pc = "built" =>
       Len(bytes) = EndOfSections(bytes, 0, IF SemanticEnabled
                                             THEN <<1, 1, 4, 1, 1, 1>>
                                             ELSE <<1, 1, 4, 1>>)
  /\ pc # "mountFailed"
  /\ pc = "mounted" =>
       /\ pack.semantic # None <=> SemanticEnabled
       /\ SemanticEnabled =>
            LET es == buildOpts.semantic[1].embeddings
                d == Len(es[1])
                sem == pack.semantic[1]
            IN  /\ Len(es) = Len(docs)
                /\ sem.dims = d
                /\ Len(sem.vecs) = Len(es) * d
                /\ Len(sem.scales) = Len(es)
                /\ \A i \in 1..Len(es) :
                     /\ SubSeq(sem.vecs, (i - 1) * d + 1, i * d)
                          = quantizeEmbeddingInt8L2Norm(es[i]).q
                     /\ sem.scales[i]
                          = encodeScaleF16(quantizeEmbeddingInt8L2Norm(es[i]).scale)

\* a pack of two blocks or more with two different embeddings was mounted
C10_Witness ==
  /\ pc = "mounted"
  /\ SemanticEnabled
  /\ Len(docs) >= 2
  /\ pack.semantic # None
  /\ buildOpts.semantic[1].embeddings[1] # buildOpts.semantic[1].embeddings[2]

\* the indexes (from 0) of the blocks whose embedding is absent, has another
\* dimensionality than the others, or holds a component that is not finite
OffendingIndexes ==
  LET es == buildOpts.semantic[1].embeddings
      absent(i) == i > Len(es) \/ es[i] = <<>>
  IN  {i - 1 : i \in {j \in 1..Len(docs) :
         \/ absent(j)
         \/ \E k \in 1..Len(es) : es[k] # <<>> /\ Len(es[k]) # Len(es[j])
         \/ \E c \in 1..Len(es[j]) : es[j][c] = NotFinite}}

\* C16: with semantic enabled and an embedding that is absent, of another
\* dimensionality than the others or not finite, buildPack fails with an
\* error that names an offending index and returns no bytes; no pack is
\* produced from such an input.
C16_BadEmbeddingFailsTheBuild ==
  (pc # "init" /\ SemanticEnabled /\ OffendingIndexes # {}) =>
    /\ pc = "buildFailed"
    /\ bytes = <<>>
    /\ LET r == buildSemanticSection(Len(docs), buildOpts.semantic[1])
       IN  ~r.ok /\ r.named # None /\ r.named[1] \in OffendingIndexes

----------------------------------------------------------------------------
(* Mount and query of a version 1 pack: the blocks section is an array of  *)
(* strings, block ids stand in the stream as they are, nothing follows the *)
(* blocks section.                                                         *)

\* the buffer of a version 1 pack (the fixture of the test suite, with a
\* lexicon and postings)
buildLegacyV1PackBytes(fx) ==
  LET written(meta, lexicon, blocks) ==
        le32(Len(meta)) \o meta \o le32(Len(lexicon)) \o lexicon
        \o le32(Len(fx.postings))
        \o Concat([i \in 1..Len(fx.postings) |-> le32(fx.postings[i])])
        \o le32(Len(blocks)) \o blocks
  IN  written(jobject(<<jfield("version", jnum(1)),
                        jfield("stats.docs", jnum(Len(fx.blocks))),
                        jfield("stats.blocks", jnum(Len(fx.blocks))),
                        jfield("stats.terms", jnum(Len(fx.lexicon)))>>),
              Concat([i \in 1..Len(fx.lexicon) |->
                        <<jstr(fx.lexicon[i][1]), jnum(fx.lexicon[i][2])>>]),
              [i \in 1..Len(fx.blocks) |-> jstr(fx.blocks[i])])

\* one block "z ccc b" with nothing indexed; the blocks "z ccc", "ccc a a",
\* "b a" with the term a (id 1) indexed in block 1 at positions 1, 2 and in
\* block 2 at position 1; the same with the term ccc (id 2) of block 1 at
\* position 3 of a block "z b b ccc"
LegacyFixtures ==
  { [blocks |-> << <<122, 32, 99, 99, 99, 32, 98>> >>,
     lexicon |-> <<>>, postings |-> <<>>],
    [blocks |-> << <<122, 32, 99, 99, 99>>, <<99, 99, 99, 32, 97, 32, 97>>,
                   <<98, 32, 97>> >>,
     lexicon |-> << <<<<97>>, 1>> >>,
     postings |-> <<1, 1, 1, 2, 0, 2, 1, 0, 0>>],
    [blocks |-> << <<122, 32, 99, 99, 99>>, <<122, 32, 98, 32, 98, 32, 99, 99, 99>>,
                   <<98, 32, 97>> >>,
     lexicon |-> << <<<<97>>, 1>>, <<<<99, 99, 99>>, 2>> >>,
     postings |-> <<1, 2, 1, 0, 0, 2, 1, 3, 0, 0>>] }

InitLegacy ==
  \E fx \in LegacyFixtures :
    /\ pc = "built"
    /\ docs = <<>> /\ buildOpts = noSemantic
    /\ bytes = buildLegacyV1PackBytes(fx)
    /\ pack = <<>> /\ qtext = <<>> /\ qopts = <<>> /\ hits = <<>>
    /\ trace = noTrace /\ memo = <<>>
    /\ dinput = <<>> /\ dpool = <<>> /\ dkept = <<>> /\ dk = 0

NextLegacy == MountPack \/ Query

SpecLegacy == InitLegacy /\ [][NextLegacy]_vars

\* the pack with the token length of every block counted from its text
WithRecomputedLens(pk) ==
  [pk EXCEPT !.blockTokenLens = [i \in 1..Len(pk.blocks) |-> Len(terms(pk.blocks[i]))]]

\* C13: the mount of a version 1 pack succeeds with no semantic section and
\* with, for every block, the token length counted from the block text, and
\* the scores of a query are those BM25L gives with these lengths.
C13_LegacyMountRecomputesLengths ==
  /\ pc # "mountFailed"
  /\ pc \in {"mounted", "answered", "rejected"} =>
       /\ pack.semantic = None
       /\ pack.blockTokenLens = WithRecomputedLens(pack).blockTokenLens
  /\ Answered =>
       hits = query(WithRecomputedLens(pack), qtext, qopts, newScratch).hits

----------------------------------------------------------------------------
(* Calls of query one after another on one mounted pack, some of them      *)
(* answered with hits, some with the empty list, some refused              *)

\* a; "a b" (quoted); z a with topK 1; a with topK 0 (refused); ccc in the
\* namespace x; b in the source p with expansion off
FrameInputs ==
  { <<<<97>>, defaultOptions>>,
    <<<<34, 97, 32, 98, 34>>, defaultOptions>>,
    <<<<122, 32, 97>>, [defaultOptions EXCEPT !.topK = Some(1)]>>,
    <<<<97>>, [defaultOptions EXCEPT !.topK = Some(0)]>>,
    <<<<99, 99, 99>>, [defaultOptions EXCEPT !.namespace = Some(<< <<120>> >>)]>>,
    <<<<98>>, [defaultOptions EXCEPT !.source = Some(<< <<112>> >>),
                                     !.expEnabled = Some(FALSE)]>> }

\* how the last call ended
outcome(p, hs) == IF p = "answered" /\ hs = <<>> THEN "empty" ELSE p

\* the outcomes seen so far, each once, in the order they were first seen
logged(m, o) == IF o \in Range(m) THEN m ELSE Append(m, o)

QueryAgain ==
  /\ pc \in {"mounted", "answered", "rejected"}
  /\ \E in \in FrameInputs :
       IF validateQueryOptions(in[2]) THEN RunQuery(in[1], in[2])
       ELSE RejectQuery(in[1], in[2])
  /\ memo' = logged(memo, outcome(pc', hits'))
  /\ UNCHANGED <<docs, buildOpts, bytes, dinput, dpool, dkept, dk>>

NextFrame == BuildPack \/ MountPack \/ QueryAgain

SpecFrame == Init /\ [][NextFrame]_vars

----------------------------------------------------------------------------
(* Calls of query with options of every shape, valid or not *)

\* topK -1, 0, 1; minScore -1, 0; a number among the strings of
\* requirePhrases, namespace or source; queryExpansion.docs 0, 1
ShapedOptions ==
  [topK : {None, Some(-1), Some(0), Some(1)},
   minScore : {None, Some(-1), Some(0)},
   requirePhrases : {None, Some(<< <<97, 32, 98>> >>),
                     Some(<< <<97, 32, 98>>, NotAString(123) >>)},
   namespace : {None, Some(<< <<120>>, NotAString(42) >>)},
   source : {None, Some(<< <<112>>, NotAString(42) >>)},
   expEnabled : {None},
   expDocs : {None, Some(0), Some(1)},
   expTerms : {None}, expWeight : {None}, expMinTermLength : {None}]

QueryShaped ==
  /\ pc = "mounted"
  /\ \E q \in {<<97>>, <<122, 32, 97>>}, o \in ShapedOptions :
       IF validateQueryOptions(o) THEN RunQuery(q, o) ELSE RejectQuery(q, o)
  /\ UNCHANGED <<docs, buildOpts, bytes, memo, dinput, dpool, dkept, dk>>

NextShaped == BuildPack \/ MountPack \/ QueryShaped

SpecShaped == Init /\ [][NextShaped]_vars

\* an entry of the option that is not a string
HasNonString(o) == o # None /\ \E i \in 1..Len(o[1]) : \E j \in 1..Len(o[1][i]) : o[1][i][j] < 0

InvalidShape(o) ==
  \/ o.topK # None /\ o.topK[1] <= 0
  \/ o.minScore # None /\ o.minScore[1] < 0
  \/ HasNonString(o.requirePhrases)
  \/ HasNonString(o.namespace)
  \/ HasNonString(o.source)
  \/ o.expDocs # None /\ o.expDocs[1] < 1

Called == pc \in {"answered", "rejected", "hung"}

----------------------------------------------------------------------------
(* Mount of a buffer that is not what buildPack wrote: cut short, with a   *)
(* length prefix larger than the bytes that follow, or with a posting      *)
(* stream that names a term or a block the pack does not have              *)

\* "z a b ccc" alone, "z ccc" followed by "z a b ccc", and the three texts
\* "z a c", "z c dn", "z a fn"
MountDocLists ==
  { << [id |-> Some(<<112>>), heading |-> None, namespace |-> Some(<<120>>),
        text |-> <<122, 32, 97, 32, 98, 32, 99, 99, 99>>] >>,
    << [id |-> Some(<<113>>), heading |-> None, namespace |-> Some(<<121>>),
        text |-> <<122, 32, 99, 99, 99>>],
       [id |-> Some(<<112>>), heading |-> None, namespace |-> Some(<<120>>),
        text |-> <<122, 32, 97, 32, 98, 32, 99, 99, 99>>] >>,
    << absentDoc(<<122, 32, 97, 32, 99>>), absentDoc(<<122, 32, 99, 32, 100, 110>>),
       absentDoc(<<122, 32, 97, 32, 102, 110>>) >> }

\* no semantic section, or one embedding <<3, 4>> per document
MountBuildOptions(ds) ==
  { noSemantic,
    [semantic |-> Some([enabled |-> TRUE, modelId |-> <<109>>,
                        embeddings |-> [i \in 1..Len(ds) |-> <<3, 4>>]])] }

\* the offsets of the length prefixes of the meta, lexicon, postings and
\* blocks sections
PrefixOffsets(buf) ==
  { 0, EndOfSections(buf, 0, <<1>>), EndOfSections(buf, 0, <<1, 1>>),
    EndOfSections(buf, 0, <<1, 1, 4>>) }

\* the metadata versions written into a buffer: the three versions of the
\* format and the one after them
MaxVersion == 4

\* what is done to the buffer before the mount
Damages(buf) ==
  {[kind |-> "none", at |-> 0]}
  \cup {[kind |-> "truncated", at |-> n] : n \in 0..(Len(buf) - 1)}
  \cup {[kind |-> "prefix", at |-> o] : o \in PrefixOffsets(buf)}
  \cup {[kind |-> "termId", at |-> 0], [kind |-> "blockId", at |-> 1]}
  \cup {[kind |-> "version", at |-> v] : v \in 1..MaxVersion}
  \cup {[kind |-> "unterminated", at |-> n] : n \in 1..2}
  \cup {[kind |-> "noLen", at |-> 0]}

\* truncated: the first `at` bytes; prefix: the length prefix at offset `at`
\* says more than the buffer holds; termId: the first term id of the stream
\* is one the lexicon does not have; blockId: the first block entry of the
\* stream decodes to a block id beyond the last block; version: the metadata
\* say version `at`; unterminated: the posting stream without its last `at`
\* elements; noLen: the block objects without their len field
damaged(buf, d, termCount, blockCount) ==
  LET posting(k) == EndOfSections(buf, 0, <<1, 1>>) + 4 + 4 * k
      shorter(o2, count) ==
        SubSeq(buf, 1, o2) \o le32(count - d.at)
        \o SubSeq(buf, o2 + 5, o2 + 4 + 4 * (count - d.at))
        \o SubSeq(buf, o2 + 4 + 4 * count + 1, Len(buf))
      lenFree(cells) ==
        SelectSeq([i \in 1..Len(cells) |->
                     IF cells[i].k = "{" THEN [cells[i] EXCEPT !.v = @ - 1] ELSE cells[i]],
                  LAMBDA c : ~(c.k = "f" /\ c.name = "len"))
      rewritten(o3, o4, cells) ==
        SubSeq(buf, 1, o3) \o le32(Len(cells)) \o cells \o SubSeq(buf, o4 + 1, Len(buf))
      blocksAt(o3, o4) == rewritten(o3, o4, lenFree(SubSeq(buf, o3 + 5, o4)))
      relabel(c) == IF ~isByte(c) /\ c.k = "f" /\ c.name = "version"
                    THEN jfield("version", jnum(d.at)) ELSE c
  IN  CASE d.kind = "none" -> buf
        [] d.kind = "truncated" -> SubSeq(buf, 1, d.at)
        [] d.kind = "prefix" -> writeAt(buf, d.at, le32(Len(buf)))
        [] d.kind = "termId" -> writeAt(buf, posting(d.at), le32(termCount + 1))
        [] d.kind = "blockId" -> writeAt(buf, posting(d.at), le32(blockCount + 2))
        [] d.kind = "version" -> [i \in 1..Len(buf) |-> relabel(buf[i])]
        [] d.kind = "unterminated" ->
             shorter(EndOfSections(buf, 0, <<1, 1>>),
                     getUint32(buf, EndOfSections(buf, 0, <<1, 1>>)))
        [] d.kind = "noLen" ->
             blocksAt(EndOfSections(buf, 0, <<1, 1, 4>>), EndOfSections(buf, 0, <<1, 1, 4, 1>>))

InitMount ==
  \E ds \in MountDocLists :
    \E o \in MountBuildOptions(ds) :
      LET with(buf) ==
            \E d \in Damages(buf) :
              /\ bytes = damaged(buf, d, Len(buildIndex(blocksOf(ds)).lexicon), Len(ds))
              /\ memo = d
      IN  /\ with(buildPack(ds, o).bytes)
          /\ pc = "built"
          /\ docs = ds /\ buildOpts = o
          /\ pack = <<>> /\ qtext = <<>> /\ qopts = <<>> /\ hits = <<>>
          /\ trace = noTrace
          /\ dinput = <<>> /\ dpool = <<>> /\ dkept = <<>> /\ dk = 0

\* the queries a, ccc, z a and a c, with the default options and with the
\* expansion switched off
\* a, ccc, z a, a c and a "*" with and without expansion; a with the
\* requirePhrases entry "**"
MountedQueries ==
  ({<<97>>, <<99, 99, 99>>, <<122, 32, 97>>, <<97, 32, 99>>, <<97, 32, 34, 42, 34>>}
     \X {defaultOptions, [defaultOptions EXCEPT !.expEnabled = Some(FALSE)]})
  \cup {<< <<97>>, [defaultOptions EXCEPT !.requirePhrases = Some(<< <<42, 42>> >>)] >>}

\* one query on the pack mounted from the buffer
QueryMounted ==
  /\ pc = "mounted"
  /\ \E in \in MountedQueries : RunQuery(in[1], in[2])
  /\ UNCHANGED <<docs, buildOpts, bytes, memo, dinput, dpool, dkept, dk>>

NextMount == MountPack \/ QueryMounted

SpecMount == InitMount /\ [][NextMount]_vars

\* C17: mountPack aborts with an error and returns no Pack for a buffer
\* whose posting stream holds a term id the lexicon does not have or a block
\* entry that decodes to a block id >= N, for a truncated buffer, and for a
\* buffer with a section length prefix larger than the bytes that remain.
C17_MalformedPackIsRefused ==
  (pc # "built" /\ memo.kind \in {"truncated", "prefix", "termId", "blockId"})
    => (pc = "mountFailed" /\ pack = <<>>)

\* C18: mountPack refuses, with an error and no Pack, every pack whose
\* metadata version is above 3, and mounts the packs of version 1, 2 and 3.
C18_FutureVersionIsRefused ==
  (pc # "built" /\ memo.kind = "version")
    => IF memo.at > 3 THEN pc = "mountFailed" /\ pack = <<>>
       ELSE pc = "mounted" /\ pack.meta.version = memo.at

----------------------------------------------------------------------------
(* rank.ts: the agents of a pack.  An agent is its id and its              *)
(* retrievalDefaults, written with the fields of the query options (the    *)
(* fields of queryExpansion side by side with the others); a field that is *)
(* not given is None                                                       *)

\* pack.meta.agents?.agents.find((agent) => agent.id === agentId)
getAgent(agents, agentId) ==
  LET first(found) == IF found = {} THEN None
                      ELSE Some(agents[CHOOSE i \in found : \A j \in found : i <= j])
  IN  first({i \in 1..Len(agents) : agents[i].id = agentId})

resolveFailed == [ok |-> FALSE, agent |-> <<>>, retrievalOptions |-> <<>>]

\* input.query absent is None.  { ...defaults, ...caller } with the nested
\* spread of queryExpansion: every field the caller gives replaces the
\* agent's.
resolveAgent(agents, input) ==
  LET spread(defaults, caller) ==
        [f \in DOMAIN defaults |-> IF caller[f] # None THEN caller[f] ELSE defaults[f]]
      validated(agent, retrievalOptions) ==
        IF ~validateQueryOptions(retrievalOptions) THEN resolveFailed
        ELSE [ok |-> TRUE, agent |-> agent, retrievalOptions |-> retrievalOptions]
      composed(agent, caller) ==
        validated(agent, spread(agent.retrievalDefaults, caller))
      found(agent) ==
        IF agent = None THEN resolveFailed
        ELSE composed(agent[1], IF input.query = None THEN defaultOptions
                                ELSE input.query[1])
  IN  found(getAgent(agents, input.agentId))

\* agent m: namespace [m], topK 2; agent k: namespace [k], source [p],
\* expansion off
AgentRegistry ==
  << [id |-> <<109>>,
      retrievalDefaults |-> [defaultOptions EXCEPT !.namespace = Some(<< <<109>> >>),
                                                   !.topK = Some(2)]],
     [id |-> <<107>>,
      retrievalDefaults |-> [defaultOptions EXCEPT !.namespace = Some(<< <<107>> >>),
                                                   !.source = Some(<< <<112>> >>),
                                                   !.expEnabled = Some(FALSE)]] >>

\* the agents m, k and u (not in the registry); no query, or a query with
\* some of namespace, topK, source, minScore and queryExpansion.enabled
AgentInputs ==
  [agentId : {<<109>>, <<107>>, <<117>>},
   query : {None} \cup
           {Some(o) : o \in
              [topK : {None, Some(0), Some(1), Some(5)}, minScore : {None, Some(0)},
               requirePhrases : {None},
               namespace : {None, Some(<< <<107>> >>), Some(<< <<109>> >>)},
               source : {None, Some(<< <<113>> >>)},
               expEnabled : {None, Some(TRUE)},
               expDocs : {None}, expTerms : {None}, expWeight : {None},
               expMinTermLength : {None}]}]

\* the pack is mounted with the registry in its metadata
InitAgent ==
  /\ pc = "mounted"
  /\ pack = [meta |-> [agents |-> AgentRegistry]]
  /\ docs = <<>> /\ buildOpts = noSemantic /\ bytes = <<>>
  /\ qtext = <<>> /\ qopts = <<>> /\ hits = <<>>
  /\ trace = noTrace /\ memo = <<>>
  /\ dinput = <<>> /\ dpool = <<>> /\ dkept = <<>> /\ dk = 0

\* one call of resolveAgent; qtext is the agent id, qopts the caller's
\* query and memo what the call returned
ResolveAgent ==
  /\ pc \in {"mounted", "resolved", "resolveFailed"}
  /\ \E input \in AgentInputs :
       LET returned(r) ==
             /\ memo' = r
             /\ pc' = IF r.ok THEN "resolved" ELSE "resolveFailed"
       IN  /\ returned(resolveAgent(pack.meta.agents, input))
           /\ qtext' = input.agentId
           /\ qopts' = input.query
  /\ UNCHANGED <<docs, buildOpts, bytes, pack, hits, trace, dinput, dpool, dkept, dk>>

NextAgent == ResolveAgent

SpecAgent == InitAgent /\ [][NextAgent]_vars

\* C19: the namespace of the options resolveAgent returns is the namespace
\* of the agent's retrievalDefaults, whatever namespace the caller's query
\* names; every other option the caller gives replaces the agent's default.
C19_AgentNamespaceIsStrict ==
  pc = "resolved" =>
    /\ memo.retrievalOptions.namespace = memo.agent.retrievalDefaults.namespace
    /\ qopts # None =>
          \A f \in DOMAIN qopts[1] \ {"namespace"} :
            qopts[1][f] # None => memo.retrievalOptions[f] = qopts[1][f]

----------------------------------------------------------------------------
(* patch.ts *)

\* const limits = { mini: ..., small: ..., full: ... }
limits(budget) ==
  CASE budget = "mini" -> [snippets |-> 3, chars |-> 240]
    [] budget = "small" -> [snippets |-> 6, chars |-> 420]
    [] budget = "full" -> [snippets |-> 10, chars |-> 900]

\* text.slice(0, maxChars) with nothing appended
sliceOnly(text, maxChars) == SubSeq(text, 1, Min2(Len(text), maxChars))

\* 8230 is the ellipsis character
truncate(text, maxChars) ==
  IF Len(text) > maxChars THEN SubSeq(text, 1, maxChars) \o <<8230>> ELSE text

\* text.match(/^(.{10,200}?[.!?])\s/): the shortest run of 10 to 200
\* characters without a line terminator that is followed by one of . ! ? and
\* then a white space character; text.slice(0, 160) when there is none
firstSentence(text) ==
  LET terminators == {10, 13, 8232, 8233}
      spaces == {9, 10, 11, 12, 13, 32, 160, 5760, 8232, 8233, 8239, 8287, 12288, 65279}
                \cup 8192..8202
      runs == {n \in 10..200 :
                 /\ n + 2 <= Len(text)
                 /\ \A i \in 1..n : text[i] \notin terminators
                 /\ text[n + 1] \in {46, 33, 63}
                 /\ text[n + 2] \in spaces}
      shortest(found) ==
        IF found = {} THEN SubSeq(text, 1, Min2(Len(text), 160))
        ELSE SubSeq(text, 1, (CHOOSE n \in found : \A m \in found : n <= m) + 1)
  IN  shortest(runs)

\* opts.budget absent is None
makeContextPatch(hs, opts) ==
  LET patch(snippets) ==
        [background |-> [i \in 1..Min2(Len(snippets), 2) |-> firstSentence(snippets[i].text)],
         snippets |-> snippets,
         definitions |-> <<>>,
         facts |-> <<>>]
      cut(limit) ==
        patch([i \in 1..Min2(Len(hs), limit.snippets) |->
                 [text |-> truncate(hs[i].text, limit.chars), source |-> hs[i].source]])
  IN  cut(limits(IF opts.budget = None THEN "small" ELSE opts.budget[1]))

\* the longest hit list handed to makeContextPatch
MaxPatchHits == 11

Budgets == {"mini", "small", "full"}

\* n characters: the letter a, after "Alpha text. " when the text opens with
\* a sentence
patchText(opens, n) ==
  LET alpha == <<65, 108, 112, 104, 97, 32, 116, 101, 120, 116, 46, 32>>
  IN  [i \in 1..n |-> IF opens /\ i <= Len(alpha) THEN alpha[i] ELSE 97]

\* "Alpha text.", and for every budget a text of exactly its character
\* bound, one of one character more, and one of one character more that
\* opens with a sentence
PatchTexts ==
  << patchText(TRUE, 11),
     patchText(FALSE, limits("mini").chars),
     patchText(FALSE, limits("mini").chars + 1),
     patchText(TRUE, limits("mini").chars + 1),
     patchText(FALSE, limits("small").chars),
     patchText(FALSE, limits("small").chars + 1),
     patchText(TRUE, limits("small").chars + 1),
     patchText(FALSE, limits("full").chars),
     patchText(FALSE, limits("full").chars + 1),
     patchText(TRUE, limits("full").chars + 1) >>

\* n hits whose texts go round PatchTexts from the text after `from`; every
\* other hit has a source (s0, s1, ...)
patchHits(n, from) ==
  [i \in 1..n |->
     [blockId |-> i - 1, score |-> 1000,
      text |-> PatchTexts[((i + from - 1) % Len(PatchTexts)) + 1],
      source |-> IF i % 2 = 1 THEN Some(<<115, 48 + (i % 10)>>) ELSE None,
      namespace |-> None]]

InitPatch ==
  /\ pc = "answered"
  /\ \E n \in 0..MaxPatchHits, from \in 1..Len(PatchTexts) : hits = patchHits(n, from)
  /\ docs = <<>> /\ buildOpts = noSemantic /\ bytes = <<>> /\ pack = <<>>
  /\ qtext = <<>> /\ qopts = <<>>
  /\ trace = noTrace /\ memo = <<>>
  /\ dinput = <<>> /\ dpool = <<>> /\ dkept = <<>> /\ dk = 0

\* one call of makeContextPatch on the hits; qopts is its opts and memo the
\* patch it returned
MakeContextPatch ==
  /\ pc \in {"answered", "patched"}
  /\ \E opts \in [budget : {None} \cup {Some(b) : b \in Budgets}] :
       /\ qopts' = opts
       /\ memo' = makeContextPatch(hits, opts)
  /\ pc' = "patched"
  /\ UNCHANGED <<docs, buildOpts, bytes, pack, qtext, hits, trace, dinput, dpool, dkept, dk>>

NextPatch == MakeContextPatch

SpecPatch == InitPatch /\ [][NextPatch]_vars

\* the budget of the call, small when none is given
BudgetOfCall == IF qopts.budget = None THEN "small" ELSE qopts.budget[1]

\* C20: with the limits (3, 240) for mini, (6, 420) for small and (10, 900)
\* for full (small when no budget is given), makeContextPatch returns
\* snippets for exactly the first min(|hits|, max_snippets) hits in hit order;
\* snippet i carries the source of hit i; its text is the hit text when that
\* has at most max_chars characters and otherwise its first max_chars
\* characters followed by one ellipsis; background has min(2, |snippets|)
\* entries; definitions and facts are empty.
C20_PatchFollowsBudget ==
  pc = "patched" =>
    LET maxSnippets == CASE BudgetOfCall = "mini" -> 3 [] BudgetOfCall = "small" -> 6
                         [] BudgetOfCall = "full" -> 10
        maxChars == CASE BudgetOfCall = "mini" -> 240 [] BudgetOfCall = "small" -> 420
                      [] BudgetOfCall = "full" -> 900
    IN  /\ Len(memo.snippets) = Min2(Len(hits), maxSnippets)
        /\ \A i \in 1..Len(memo.snippets) :
             /\ memo.snippets[i].source = hits[i].source
             /\ memo.snippets[i].text =
                  IF Len(hits[i].text) <= maxChars THEN hits[i].text
                  ELSE SubSeq(hits[i].text, 1, maxChars) \o <<8230>>
        /\ Len(memo.background) = Min2(2, Len(memo.snippets))
        /\ memo.definitions = <<>>
        /\ memo.facts = <<>>

\* a call with more hits than the budget has snippets, one of the first two
\* hits longer than the character bound and one exactly as long as it
C20_Witness ==
  /\ pc = "patched"
  /\ Len(hits) > Len(memo.snippets)
  /\ \E i \in 1..2 : /\ Len(hits[i].text) > limits(BudgetOfCall).chars
                      /\ memo.snippets[i].text # hits[i].text
  /\ \E i \in 1..Len(memo.snippets) :
       /\ Len(hits[i].text) = limits(BudgetOfCall).chars
       /\ memo.snippets[i].text = hits[i].text
  /\ \E i \in 1..Len(memo.snippets) : memo.snippets[i].source # None

----------------------------------------------------------------------------
(* The candidate scan of the last query, taken alone *)

\* the ids of the query's terms that the lexicon has
QueryTermIds == dedupeSeq(lexIds(pack.lexicon, terms(qtext)))

\* what scanForTermIds computes for them on the mounted pack, from empty maps
ScanOfQuery == scanForTermIds(pack, unitWeights(QueryTermIds), scanDefaults, newScratch)

\* the term with id tid
TermOfId(tid) == pack.lexicon[CHOOSE i \in 1..Len(pack.lexicon) : pack.lexicon[i][2] = tid][1]

\* the 0-based token positions of term t in the text of block b (b from 1)
TokenPositions(t, b) ==
  LET toks == terms(pack.blocks[b])
  IN  {i - 1 : i \in {j \in 1..Len(toks) : toks[j] = t}}

\* C21: the candidate scan creates a candidate for block b if and only if b
\* holds at least one of the query's terms, and for every such block and
\* every query term in it tf is the number of its occurrences and pos is
\* exactly its token positions, position 0 included.
C21_ScanInvertsBuildIndex ==
  (pc \in {"answered", "hung"} /\ QueryTermIds # <<>>) =>
    LET s == ScanOfQuery
        Q == Range(QueryTermIds)
    IN  /\ ~s.hang
        /\ {s.cands[i].bid : i \in 1..Len(s.cands)}
             = {b - 1 : b \in {c \in 1..Len(pack.blocks) :
                                 \E tid \in Q : TokenPositions(TermOfId(tid), c) # {}}}
        /\ \A i \in 1..Len(s.cands) :
             \A tid \in Q :
               s.cands[i].bid + 1 \in 1..Len(pack.blocks) =>
                 LET ps == TokenPositions(TermOfId(tid), s.cands[i].bid + 1)
                 IN  ps # {} =>
                       /\ mapGet(s.cands[i].tf, tid, 0) = 1000 * Cardinality(ps)
                       /\ Range(mapGet(s.cands[i].pos, tid, <<>>)) = ps
                       /\ Len(mapGet(s.cands[i].pos, tid, <<>>)) = Cardinality(ps)

\* the number of blocks of the pack whose text holds the term with id tid
BlocksWith(tid) ==
  Cardinality({b \in 1..Len(pack.blocks) : TokenPositions(TermOfId(tid), b) # {}})

\* C22: for every query term found in the lexicon, the document frequency
\* the ranking uses is the number of blocks of the whole pack whose text
\* holds the term, whatever the namespace, source and phrase filters are, and
\* no other term's entry replaces it by another value.
C22_DfCountsAllBlocks ==
  Answered => \A tid \in Range(QueryTermIds) : mapGet(trace.dfs, tid, 0) = BlocksWith(tid)

----------------------------------------------------------------------------
(* Queries on packs mountPack accepted from buffers buildPack did not      *)
(* write as they are                                                       *)

\* C23: query terminates for every pack mountPack accepts and every query:
\* the posting scan stops at the end of the postings array even when the
\* array does not end with a 0 terminator, and the minimal-cover-span loop
\* and the diversifier loop terminate.
C23_QueryTerminates == pc # "hung"

\* C29: a block object without a len field is loaded with token length 0,
\* and the length the BM25L normalization then uses for a block with
\* non-empty text is never 0.
C29_MissingLenIsRecomputed ==
  (pc = "answered" /\ memo.kind = "noLen") =>
    /\ \A b \in 1..Len(pack.blocks) : pack.blockTokenLens[b] = 0
    /\ \A i \in 1..Len(trace.cands) :
         (trace.cands[i].bid + 1 \in 1..Len(pack.blocks)
            /\ terms(pack.blocks[trace.cands[i].bid + 1]) # <<>>)
           => candLen(trace.cands[i], pack.blockTokenLens) # 0

----------------------------------------------------------------------------
(* minCoverSpan called on its own.  dinput is the position map of the      *)
(* caller before the call, dpool the same map after it, memo the span      *)
(* returned                                                                *)

\* the largest token position in a list
MaxSpanPos == 3

\* position lists of one and two positions in any order, and one of three
SpanLists ==
  {<<a>> : a \in 0..MaxSpanPos}
  \cup {<<a, b>> : a, b \in 0..MaxSpanPos}
  \cup {<<MaxSpanPos, 0, 2>>}

\* the maps of no term (the same for an absent map: `posMap ? ... : []`),
\* and of one, two and three terms
SpanMaps ==
  {<<>>}
  \cup {<< <<1, a>> >> : a \in SpanLists}
  \cup {<< <<1, a>>, <<2, b>> >> : a, b \in SpanLists}
  \cup {<< <<1, a>>, <<2, b>>, <<3, c>> >> : a, b, c \in SpanLists}

\* the caller's map after the call: the lists are copied before the sort
\* (arr.slice().sort)
posMapAfterSpan(posMap) == posMap

InitSpan ==
  /\ pc = "spanStart"
  /\ dinput \in SpanMaps
  /\ dpool = <<>> /\ dkept = <<>> /\ dk = 0
  /\ docs = <<>> /\ buildOpts = noSemantic /\ bytes = <<>> /\ pack = <<>>
  /\ qtext = <<>> /\ qopts = <<>> /\ hits = <<>> /\ trace = noTrace
  /\ memo = <<>>

MinCoverSpan ==
  /\ pc = "spanStart"
  /\ memo' = minCoverSpan(dinput)
  /\ dpool' = posMapAfterSpan(dinput)
  /\ pc' = "spanDone"
  /\ UNCHANGED <<docs, buildOpts, bytes, pack, qtext, qopts, hits, trace,
                 dinput, dkept, dk>>

NextSpan == MinCoverSpan

SpecSpan == InitSpan /\ [][NextSpan]_vars

\* max(c) - min(c) for every choice c of one position from each list
SpansOfChoices(posMap) ==
  {(CHOOSE hi \in Range(c) : \A x \in Range(c) : x <= hi)
     - (CHOOSE lo \in Range(c) : \A x \in Range(c) : lo <= x) :
   c \in {f \in [1..Len(posMap) -> 0..MaxSpanPos] :
            \A i \in 1..Len(posMap) : f[i] \in Range(posMap[i][2])}}

\* C24: for a map of term id to a non-empty position list minCoverSpan
\* returns the least max(c) - min(c) over the tuples c that pick one position
\* from each list; it returns null for the empty map; and it leaves the
\* caller's position lists as they were.
C24_MinCoverSpanIsLeastWindow ==
  pc = "spanDone" =>
    /\ dinput = <<>> => memo = NoSpan
    /\ dinput # <<>> =>
          /\ memo \in SpansOfChoices(dinput)
          /\ \A w \in SpansOfChoices(dinput) : memo <= w
    /\ dpool = dinput

\* three terms, an unsorted list among them, and the least window is not
\* the window of the first positions
C24_Witness ==
  /\ pc = "spanDone"
  /\ Len(dinput) = 3
  /\ \E i \in 1..3 : Len(dinput[i][2]) = 2 /\ dinput[i][2][1] > dinput[i][2][2]
  /\ memo < 2
  /\ \E i, j \in 1..3 : dinput[i][2][1] - dinput[j][2][1] >= 2

----------------------------------------------------------------------------
(* diversifyAndDedupe: what it returns of the pool *)

\* the first of the highest-scoring hits of hs, in the order of hs
TopOf(hs) ==
  hs[CHOOSE i \in 1..Len(hs) :
       /\ \A j \in 1..Len(hs) : hs[j].score <= hs[i].score
       /\ \A j \in 1..(i - 1) : hs[j].score < hs[i].score]

\* C25: for a non-empty pool and k >= 1 the first hit diversifyAndDedupe
\* returns is the pool's highest-scoring candidate, the first such in input
\* order when scores tie, and the returned sequence is a function of the
\* input sequence only.
C25_FirstHitIsTopScoring ==
  /\ (pc \in {"divLoop", "divDone"} /\ dkept # <<>>) => dkept[1] = TopOf(dinput)
  /\ (pc = "divDone" /\ dinput # <<>>) =>
        /\ hits # <<>> /\ hits[1] = TopOf(dinput)
        /\ hits = diversifyAndDedupe(dinput, dk)
  /\ (pc = "answered" /\ trace.pool # <<>>) =>
        hits # <<>> /\ hits[1] = TopOf(trace.pool)

\* the call returned, its input holds two different hits of the highest
\* score, and the second of them comes before the first in the output of
\* neither
C25_Witness ==
  /\ pc = "divDone"
  /\ Len(dinput) >= 2
  /\ \E i, j \in 1..Len(dinput) :
       /\ i < j /\ dinput[i] # dinput[j]
       /\ dinput[i].score = dinput[j].score
       /\ dinput[i] = TopOf(dinput)
       /\ hits[1] = dinput[i]
  /\ dinput[1] # TopOf(dinput)

\* how often x occurs in the sequence s
Count(s, x) == Cardinality({i \in 1..Len(s) : s[i] = x})

\* every hit of out is taken from in, none more often than in holds it, and
\* when out has fewer than k hits every hit of in that is not in out is a
\* near-duplicate of a hit of out
NothingDistinctLost(in, out, k) ==
  /\ \A i \in 1..Len(out) : /\ out[i] \in Range(in)
                            /\ Count(out, out[i]) <= Count(in, out[i])
                            /\ Count(out, out[i]) = 1
  /\ Len(out) < k =>
       \A j \in 1..Len(in) :
         in[j] \notin Range(out) => \E i \in 1..Len(out) : ~BelowThreshold(in[j], out[i])

\* C26: every hit diversifyAndDedupe returns is an element of the input pool
\* and is returned at most once, and whenever fewer than k hits are returned
\* every pool candidate that was not returned has similarity >= simThreshold
\* to at least one returned hit.
C26_NoDistinctResultLost ==
  /\ pc = "divDone" => NothingDistinctLost(dinput, hits, dk)
  /\ pc = "answered" => NothingDistinctLost(trace.pool, hits, topKOf(qopts))

\* fewer than k hits came back from a pool of three, one of them dropped as
\* a near-duplicate and two of them kept
C26_Witness ==
  /\ pc = "divDone"
  /\ Len(dinput) = 3 /\ Len(hits) = 2 /\ dk = 3
  /\ \E j \in 1..3 : dinput[j] \notin Range(hits)

----------------------------------------------------------------------------
(* The order of the ranked candidates *)

\* the candidates of the last query in the order of their final scores: the
\* pool as diversifyAndDedupe sorts it, before any selection
RankedSequence == sortedPool(trace.pool)

\* the BM25L score of block bid in the last query
Bm25Of(bid) ==
  LET r == rankBM25L(trace.cands, avgLenOf(pack), pack.meta.stats.blocks, trace.dfs,
                     pack.blockTokenLens)
  IN  r[CHOOSE i \in 1..Len(r) : r[i].blockId = bid].score

\* the KNS distance of the query to the text of a hit
KnsOf(h) == knsDistance(knsSignature(normalize(qtext)), knsSignature(h.text))

\* C27: without expansion the ranked candidate sequence is monotone
\* non-increasing in score, and candidates of equal BM25L score are ordered
\* by the KNS tie-break (the smaller distance first) and, when that is equal
\* too, by ascending block id, whatever order the scan discovered them in.
C27_TiesByKnsThenBlockId ==
  (pc = "answered" /\ memo.kind = "none" /\ qopts.expEnabled = Some(FALSE)) =>
    \A i, j \in 1..Len(RankedSequence) :
      i < j =>
        /\ RankedSequence[i].score >= RankedSequence[j].score
        /\ Bm25Of(RankedSequence[i].blockId) = Bm25Of(RankedSequence[j].blockId) =>
             \/ KnsOf(RankedSequence[i]) < KnsOf(RankedSequence[j])
             \/ /\ KnsOf(RankedSequence[i]) = KnsOf(RankedSequence[j])
                /\ RankedSequence[i].blockId < RankedSequence[j].blockId

----------------------------------------------------------------------------
(* Phrases without a token *)

\* q without the quoted spans that keep no token after normalization
RECURSIVE dropEmptySpans(_, _)
dropEmptySpans(q, i) ==
  LET o == IndexFrom(q, 34, i)
  IN  IF o = 0 THEN SubSeq(q, i, Len(q))
      ELSE LET c == IndexFrom(q, 34, o + 1)
           IN  IF c = 0 THEN SubSeq(q, i, Len(q))
               ELSE IF c = o + 1 THEN SubSeq(q, i, o) \o dropEmptySpans(q, o + 1)
               ELSE IF terms(SubSeq(q, o + 1, c - 1)) = <<>>
                      THEN SubSeq(q, i, o - 1) \o dropEmptySpans(q, c + 1)
               ELSE SubSeq(q, i, c) \o dropEmptySpans(q, c + 1)

\* opts without the requirePhrases entries that keep no token
dropEmptyEntries(opts) ==
  LET hasToken(s) == terms(s) # <<>>
  IN  IF opts.requirePhrases = None THEN opts
      ELSE [opts EXCEPT !.requirePhrases = Some(SelectSeq(opts.requirePhrases[1], hasToken))]

HasEmptyPhrase ==
  \/ dropEmptySpans(qtext, 1) # qtext
  \/ dropEmptyEntries(qopts) # qopts

\* C28: a quoted span or a requirePhrases entry that keeps no token after
\* normalization is discarded: the query returns the hits of the same query
\* without that span or entry, it does not reject every candidate.
C28_EmptyPhraseIsDiscarded ==
  (pc = "answered" /\ memo.kind = "none" /\ HasEmptyPhrase) =>
    hits = query(pack, dropEmptySpans(qtext, 1), dropEmptyEntries(qopts), newScratch).hits

----------------------------------------------------------------------------
(* The float16 scale *)

\* The number a float16 bit pattern stands for, sign * man * 2^e; every such
\* number is a float32, so the value the code returns is exact.
float16ToFloat32(bits) ==
  LET value(sign, exp, frac) ==
        IF exp = 0 THEN [kind |-> "finite", sign |-> sign, man |-> frac, e |-> -24]
        ELSE IF exp = 31
             THEN [kind |-> IF frac = 0 THEN "infinite" ELSE "nan", sign |-> sign,
                   man |-> 0, e |-> 0]
        ELSE [kind |-> "finite", sign |-> sign, man |-> 1024 + frac, e |-> exp - 25]
  IN  value(IF bitSet(bits, 32768) THEN -1 ELSE 1, (bits \div 1024) % 32, bits % 1024)

decodeScaleF16(encoded) == float16ToFloat32(encoded)

\* the largest norm of the embeddings whose scales are encoded
MaxScaleNorm == 125

\* the scale maxAbs / 127 of a vector whose largest normalized component is
\* n / MaxScaleNorm; all lie in the normal float16 range
ScaleOf(n) == <<n, 127 * MaxScaleNorm>>

InitScale ==
  /\ pc = "scaleStart"
  /\ dinput \in {<<ScaleOf(m), ScaleOf(n)>> : m, n \in 1..MaxScaleNorm}
  /\ dinput[1][1] <= dinput[2][1]
  /\ dpool = <<>> /\ dkept = <<>> /\ dk = 0
  /\ docs = <<>> /\ buildOpts = noSemantic /\ bytes = <<>> /\ pack = <<>>
  /\ qtext = <<>> /\ qopts = <<>> /\ hits = <<>> /\ trace = noTrace
  /\ memo = <<>>

\* the two scales are encoded and the codes decoded
EncodeScales ==
  /\ pc = "scaleStart"
  /\ LET packed == <<encodeScaleF16(dinput[1]), encodeScaleF16(dinput[2])>>
     IN  /\ memo' = packed
         /\ dpool' = <<decodeScaleF16(packed[1]), decodeScaleF16(packed[2])>>
  /\ pc' = "scaleDone"
  /\ UNCHANGED <<docs, buildOpts, bytes, pack, qtext, qopts, hits, trace,
                 dinput, dkept, dk>>

NextScale == EncodeScales

SpecScale == InitScale /\ [][NextScale]_vars

\* | v - s | <= s / 2048 for the scale s = <<num, den>> and the decoded v
WithinHalfUlp(s, v) ==
  LET up   == IF v.e >= 0 THEN Pow2(v.e) ELSE 1
      down == IF v.e < 0 THEN Pow2(0 - v.e) ELSE 1
  IN  /\ v.kind = "finite" /\ v.sign = 1
      /\ Abs(v.man * up * s[2] - s[1] * down) <= (s[1] * down) \div 2048

\* v <= w for two decoded values of sign 1
DecodedLeq(v, w) ==
  IF v.e <= w.e THEN v.man <= w.man * Pow2(w.e - v.e)
  ELSE v.man * Pow2(v.e - w.e) <= w.man

\* C30: for a scale s of the normal float16 range decodeScaleF16(
\* encodeScaleF16(s)) differs from s by a relative error of at most 2^-11,
\* also when rounding the mantissa carries into the exponent, and
\* encodeScaleF16 is monotone non-decreasing: the smaller scale never gets
\* the larger code.
C30_ScaleIsNearestFloat16 ==
  pc = "scaleDone" =>
    /\ WithinHalfUlp(dinput[1], dpool[1])
    /\ WithinHalfUlp(dinput[2], dpool[2])
    /\ DecodedLeq(dpool[1], dpool[2])
    /\ memo[1] <= memo[2]

====
